---- MODULE Spec2Model ----
(***************************************************************************)
(* Type algebra of the Codon type checker: the mutable graph of type nodes *)
(* (codon/parser/ast/types.cpp), destructive unification with undo logs,   *)
(* and the callers of unify in the typecheck visitor.                      *)
(*                                                                         *)
(* The graph is an arena: heap[i] is the type node at address i, and a     *)
(* pointer is an address (0 is nullptr).                                   *)
(***************************************************************************)
EXTENDS Integers, Sequences, FiniteSets, TLC

VARIABLES
  heap,          \* the arena of type nodes
  roots,         \* the addresses the AST and the context hold
  undo,          \* the Unification object of the attempt in progress
  pc,            \* where the caller is: idle, probed, undone, retried, done, error,
                 \* raised (an exception left unify), cyclic (the graph has a cycle)
  op,            \* the call in progress: its name, arguments and results
  pre,           \* the arena when the call in progress began
  unboundCount,  \* Cache::unboundCount
  created,       \* the ids of the Unbound variables created, oldest first
  calls,         \* the number of calls the caller has made
  cache,         \* Cache: the realization tables of functions and classes
  ctx,           \* TypeContext: realizationDepth, bases, changedNodes, ...
  suite,         \* the nodes of the statement inferTypes is given
  run            \* where realize / inferTypes is, its argument and its result

\* The type graph and its caller; the realization and inference engine.
graph == <<heap, roots, undo, pc, op, pre, unboundCount, created, calls>>
engine == <<cache, ctx, suite, run>>

vars == <<graph, engine>>

\* ------------------------------------------------------------------ bounds
\* Number of addresses of the arena.
MaxNodes == 24
\* Highest scope level an Unbound variable starts at.
MaxLevel == 1
\* Number of calls the caller makes, one after the other.
MaxCalls == 2

\* Cache::Cache initialises unboundCount to this.
UnboundCountInit == 256

Addr == 1..MaxNodes

\* ------------------------------------------------------------------- nodes
\* One record shape for every node; k is the dynamic class of the node.
NoNode ==
  [k |-> "none", kind |-> "", id |-> 0, level |-> 0, type |-> 0, isStatic |-> 0,
   trait |-> 0, name |-> "", generics |-> <<>>, args |-> <<>>,
   funcGenerics |-> <<>>, funcParent |-> 0, ast |-> "", func |-> 0,
   known |-> <<>>, sealed |-> FALSE, evaluated |-> FALSE, stype |-> 0,
   value |-> 0, expr |-> ""]

\* LinkType(kind, id, level, type, isStatic, trait)
LinkType(kind, id, level, type, isStatic, trait) ==
  [NoNode EXCEPT !.k = "link", !.kind = kind, !.id = id, !.level = level,
                 !.type = type, !.isStatic = isStatic, !.trait = trait]

ClassType(name, generics) ==
  [NoNode EXCEPT !.k = "class", !.name = name, !.generics = generics]

RecordType(name, generics, args) ==
  [NoNode EXCEPT !.k = "record", !.name = name, !.generics = generics, !.args = args]

\* FuncType: a Function record (generics = <<argument tuple, return type>>)
\* plus the function's ast, its own generics and its parent.
FuncType(ast, generics, funcGenerics, funcParent) ==
  [NoNode EXCEPT !.k = "func", !.name = "Function", !.generics = generics,
                 !.ast = ast, !.funcGenerics = funcGenerics, !.funcParent = funcParent]

\* PartialType: a record named Partial.<mask>.<n> over the known arguments.
PartialType(name, generics, args, func, known) ==
  [NoNode EXCEPT !.k = "partial", !.name = name, !.generics = generics,
                 !.args = args, !.func = func, !.known = known]

\* StaticType(i): an evaluated integer.
StaticInt(i) ==
  [NoNode EXCEPT !.k = "static", !.evaluated = TRUE, !.stype = 1, !.value = i,
                 !.expr = "lit"]

\* StaticType(generics, e, ctx): an unevaluated integer expression e over generics.
StaticExpr(e, generics) ==
  [NoNode EXCEPT !.k = "static", !.evaluated = FALSE, !.stype = 1, !.expr = e,
                 !.generics = generics]

UnionType(generics, sealed) ==
  [NoNode EXCEPT !.k = "union", !.name = "Union", !.generics = generics,
                 !.sealed = sealed]

CallableTrait(args) == [NoNode EXCEPT !.k = "callable", !.args = args]

TypeTrait(type) == [NoNode EXCEPT !.k = "typetrait", !.type = type]

ClassKinds == {"class", "record", "func", "partial", "union"}
RecordKinds == {"record", "func", "partial", "union"}

\* ----------------------------------------------------------------- getters
RECURSIVE Follow(_, _)
\* Type::follow / LinkType::follow
Follow(h, x) ==
  IF h[x].k = "link" /\ h[x].kind = "Link" THEN Follow(h, h[x].type) ELSE x

\* getLink(): a LinkType answers itself, every other type nullptr.
GetLink(h, x) == IF h[x].k = "link" THEN x ELSE 0

\* getClass(), getRecord(), getFunc(), getStatic(), getUnion(), getPartial():
\* a Link forwards to its target, an Unbound or Generic answers nullptr.
GetAs(h, x, kinds) == LET f == Follow(h, x) IN IF h[f].k \in kinds THEN f ELSE 0
GetClass(h, x) == GetAs(h, x, ClassKinds)
GetRecord(h, x) == GetAs(h, x, RecordKinds)
GetFunc(h, x) == GetAs(h, x, {"func"})
GetStatic(h, x) == GetAs(h, x, {"static"})
GetUnion(h, x) == GetAs(h, x, {"union"})
GetPartial(h, x) == GetAs(h, x, {"partial"})

\* Type::isStaticType
IsStaticType(h, x) ==
  LET t == Follow(h, x) IN
    IF h[t].k = "static" THEN h[t].stype
    ELSE IF h[t].k = "link" THEN h[t].isStatic
    ELSE 0

\* FuncType::getArgTypes: the args of the argument tuple, generics[0].
GetArgTypes(h, f) == h[GetRecord(h, h[f].generics[1])].args
\* FuncType::getRetType: generics[1].
GetRetType(h, f) == h[f].generics[2]

\* --------------------------------------------------------- allocation
\* make_shared: the lowest free address; Oom when the arena is full.
FreeAddrs(h) == {x \in Addr : h[x].k = "none"}
Oom(h) == FreeAddrs(h) = {}
Alloc(h) == IF Oom(h) THEN MaxNodes ELSE CHOOSE x \in FreeAddrs(h) : \A y \in FreeAddrs(h) : x <= y

\* The Unification object: what an attempt linked, leveled and gave a trait.
EmptyUndo == [linked |-> <<>>, leveled |-> <<>>, traits |-> <<>>]

\* The running state of one call: the graph, the undo log, the value returned
\* (ret, or occ for occurs), the ids of the Unbound variables created so far,
\* whether the arena ran out (oom), whether the graph has become cyclic
\* (loop): follow, canRealize and unify recurse along the pointers, so the
\* call does not go on from there, and whether an exception left the call (exc).
Run(h, ul, cr) ==
  [h |-> h, undo |-> ul, ret |-> 0, occ |-> FALSE, created |-> cr,
   oom |-> FALSE, loop |-> FALSE, exc |-> FALSE, realizator |-> FALSE, res |-> 0, m |-> <<>>, cache |-> <<>>, cnt |-> 0]

Stop(s) == s.oom \/ s.loop \/ s.exc

\* startswith(name, TYPE_TUPLE)
IsTuple(name) == name \in {"Tuple.N0", "Tuple.N1", "Tuple.N2", "Tuple.N3"}

\* ------------------------------------------------------------ reachability
SeqRange(q) == {q[i] : i \in 1..Len(q)}

\* Every pointer a node holds.
Children(n) ==
  ({n.type, n.trait, n.funcParent, n.func} \cup SeqRange(n.generics)
     \cup SeqRange(n.args) \cup SeqRange(n.funcGenerics)) \ {0}

\* The pointers canRealize, realizedName and unify descend: all but a
\* variable's trait.
WalkChildren(n) == Children(n) \ (IF n.k = "link" THEN {n.trait} ELSE {})

\* The pointers occurs() follows: Link targets, class generics, record args
\* and static generics.
OccursChildren(n) ==
  IF n.k = "link" THEN (IF n.kind = "Link" THEN {n.type} ELSE {})
  ELSE IF n.k = "static" \/ n.k = "class" THEN SeqRange(n.generics) \ {0}
  ELSE IF n.k \in RecordKinds THEN (SeqRange(n.generics) \cup SeqRange(n.args)) \ {0}
  ELSE {}

Edges(n, mode) ==
  IF mode = "all" THEN Children(n)
  ELSE IF mode = "walk" THEN WalkChildren(n)
  ELSE OccursChildren(n)

RECURSIVE ReachFrom(_, _, _, _)
\* The addresses reachable from the set front (done: already visited).
ReachFrom(h, front, done, mode) ==
  IF front = {} THEN done
  ELSE LET nxt == UNION {Edges(h[x], mode) : x \in front} IN
       ReachFrom(h, nxt \ (done \cup front), done \cup front, mode)

\* shared_ptr: a node no root reaches is freed.
Collect(h, rs) ==
  LET live == ReachFrom(h, rs, {}, "all") IN
    [x \in Addr |-> IF x \in live THEN h[x] ELSE NoNode]

\* x is reachable from itself through one or more pointers of the given kind.
OnCycle(h, x) == x \in ReachFrom(h, WalkChildren(h[x]), {}, "walk")
OnOccursCycle(h, x) == x \in ReachFrom(h, OccursChildren(h[x]), {}, "occurs")

\* ------------------------------------------------------------ canRealize
RECURSIVE CanRealize(_, _)
\* LinkType/ClassType/RecordType/FuncType/StaticType/Trait::canRealize
CanRealize(h, x) ==
  LET n == h[x] IN
    IF n.k = "link" THEN n.kind = "Link" /\ CanRealize(h, n.type)
    ELSE IF n.k \in {"callable", "typetrait"} THEN FALSE
    ELSE IF n.k = "static" THEN
      n.evaluated \/ \A i \in 1..Len(n.generics) : CanRealize(h, n.generics[i])
    ELSE IF n.k = "func" THEN
      /\ \A i \in 1..Len(GetArgTypes(h, x)) :
           GetFunc(h, GetArgTypes(h, x)[i]) # 0 \/ CanRealize(h, GetArgTypes(h, x)[i])
      /\ \A i \in 1..Len(n.funcGenerics) : CanRealize(h, n.funcGenerics[i])
      /\ (n.funcParent = 0 \/ CanRealize(h, n.funcParent))
    ELSE
      /\ \A i \in 1..Len(n.args) : CanRealize(h, n.args[i])
      /\ \A i \in 1..Len(n.generics) : CanRealize(h, n.generics[i])

RECURSIVE Evaluate(_, _), EvaluateRaises(_, _)
\* StaticType::evaluate: the value of the expression with its generics bound.
\* "id" is the generic itself, "plus1" the generic plus one, "div" 64 // the
\* generic.
Evaluate(h, x) ==
  LET n == h[x] IN
    IF n.evaluated THEN n.value
    ELSE LET g == Evaluate(h, Follow(h, n.generics[1])) IN
         IF n.expr = "id" THEN g
         ELSE IF n.expr = "plus1" THEN g + 1
         ELSE IF g = 0 THEN 0 ELSE 64 \div g

\* The transform of the expression raises: error("static division by zero").
EvaluateRaises(h, x) ==
  LET n == h[x] IN
    IF n.evaluated THEN FALSE
    ELSE \/ EvaluateRaises(h, Follow(h, n.generics[1]))
         \/ n.expr = "div" /\ Evaluate(h, Follow(h, n.generics[1])) = 0

\* if (canRealize()) expr->staticValue = evaluate();
SetEvaluated(s, x) ==
  IF Stop(s) THEN s
  ELSE IF s.h[x].k = "static" /\ CanRealize(s.h, x) THEN
    IF EvaluateRaises(s.h, x) THEN [s EXCEPT !.exc = TRUE, !.ret = -1]
    ELSE [s EXCEPT !.h[x].evaluated = TRUE, !.h[x].value = Evaluate(s.h, x)]
  ELSE s

\* ------------------------------------------------------------- sequencing
\* auto r = ...; </the rest, which reads r/>
With(r, Rest(_)) == Rest(r)

\* if ((s = ...) == -1) return -1; </the rest/>
OrFail(r, Rest(_)) == IF r.ret = -1 THEN r ELSE Rest(r)

\* ------------------------------------------------------------------ occurs
RECURSIVE Occurs(_, _, _, _), OccursEach(_, _, _, _, _)
\* An occurs check that never finds the variable.
OccursNever(s, v, typ, u) == [s EXCEPT !.occ = FALSE]

\* LinkType::occurs for the variable v: sets occ; with an undo log it lowers
\* the level of every Unbound variable it passes to v's level.
Occurs(s, v, typ, u) ==
  LET h == s.h
      n == s.h[typ]
  IN
    IF n.k = "link" THEN
      IF n.kind = "Unbound" THEN
        IF n.id = h[v].id THEN [s EXCEPT !.occ = TRUE]
        ELSE IF n.trait # 0 /\ Occurs(s, v, n.trait, u).occ THEN [s EXCEPT !.occ = TRUE]
        ELSE IF u /\ n.level > h[v].level THEN
          [s EXCEPT !.undo.leveled = Append(@, <<typ, n.level>>),
                    !.h[typ].level = h[v].level, !.occ = FALSE]
        ELSE [s EXCEPT !.occ = FALSE]
      ELSE IF n.kind = "Link" THEN Occurs(s, v, n.type, u)
      ELSE [s EXCEPT !.occ = FALSE]
    ELSE IF n.k = "static" THEN OccursEach(s, v, n.generics, 1, u)
    ELSE IF n.k \in ClassKinds THEN
      With(OccursEach(s, v, n.generics, 1, u), LAMBDA g :
        IF g.occ THEN g
        ELSE IF n.k \in RecordKinds THEN OccursEach(g, v, n.args, 1, u)
        ELSE g)
    ELSE [s EXCEPT !.occ = FALSE]

OccursEach(s, v, ts, i, u) ==
  IF i > Len(ts) THEN [s EXCEPT !.occ = FALSE]
  ELSE IF ts[i] = 0 THEN OccursEach(s, v, ts, i + 1, u)
  ELSE With(Occurs(s, v, ts[i], u), LAMBDA r :
         IF r.occ THEN r ELSE OccursEach(r, v, ts, i + 1, u))

\* ------------------------------------------------------------- instantiate
\* The per-call cache std::unordered_map<int, TypePtr>: pairs <<id, address>>.
\* A cache that never finds an id.
CacheNever(c, id) == FALSE

\* cache->find(id) != cache->end()
CacheHas(c, id) == \E i \in 1..Len(c) : c[i][1] = id
CacheGet(c, id) == c[CHOOSE i \in 1..Len(c) : c[i][1] = id][2]

\* make_shared of node n: res is its address.
New(s, n) ==
  IF s.oom \/ Oom(s.h) THEN [s EXCEPT !.oom = TRUE, !.res = MaxNodes]
  ELSE [s EXCEPT !.h[Alloc(s.h)] = n, !.res = Alloc(s.h)]

RECURSIVE Instantiate(_, _, _, _), InstEach(_, _, _, _, _, _)
\* Type::instantiate(atLevel, unboundCount, cache): res is the copy. uc says
\* whether a counter is passed (s.cnt); cache is s.cache.
Instantiate(s, x, atLevel, uc) ==
  LET n == s.h[x]
      id == IF uc THEN s.cnt ELSE s.h[x].id
  IN
    IF Stop(s) THEN s
    ELSE IF n.k = "link" THEN
      IF n.kind = "Generic" THEN
        IF CacheHas(s.cache, n.id) THEN [s EXCEPT !.res = CacheGet(s.cache, n.id)]
        ELSE
          With(IF n.trait # 0
               THEN Instantiate([s EXCEPT !.cnt = IF uc THEN @ + 1 ELSE @], n.trait, atLevel, uc)
               ELSE [s EXCEPT !.cnt = IF uc THEN @ + 1 ELSE @, !.res = 0], LAMBDA tr :
            With(New(tr, LinkType("Unbound", id, atLevel, 0, n.isStatic, tr.res)), LAMBDA nw :
              [nw EXCEPT !.cache = Append(@, <<n.id, nw.res>>),
                         !.created = Append(@, id)]))
      ELSE IF n.kind = "Unbound" THEN [s EXCEPT !.res = x]
      ELSE Instantiate(s, n.type, atLevel, uc)
    ELSE IF n.k \in {"class", "static"} THEN
      With(InstEach(s, n.generics, 1, <<>>, atLevel, uc), LAMBDA g :
        New(g, [n EXCEPT !.generics = g.m]))
    ELSE IF n.k \in {"record", "partial", "union"} THEN
      With(InstEach(s, n.generics, 1, <<>>, atLevel, uc), LAMBDA g :
        With(InstEach(g, n.args, 1, <<>>, atLevel, uc), LAMBDA a :
          New(a, [n EXCEPT !.generics = g.m, !.args = a.m])))
    ELSE IF n.k = "func" THEN
      With(InstEach(s, n.funcGenerics, 1, <<>>, atLevel, uc), LAMBDA fg :
        With(IF n.funcParent # 0 THEN Instantiate(fg, n.funcParent, atLevel, uc)
             ELSE [fg EXCEPT !.res = 0], LAMBDA p :
          With(InstEach(p, n.generics, 1, <<>>, atLevel, uc), LAMBDA g :
            With(InstEach(g, n.args, 1, <<>>, atLevel, uc), LAMBDA a :
              New(a, [n EXCEPT !.funcGenerics = fg.m, !.funcParent = p.res,
                               !.generics = g.m, !.args = a.m])))))
    ELSE IF n.k = "callable" THEN
      With(InstEach(s, n.args, 1, <<>>, atLevel, uc), LAMBDA a :
        New(a, [n EXCEPT !.args = a.m]))
    ELSE
      With(Instantiate(s, n.type, atLevel, uc), LAMBDA y :
        New(y, [n EXCEPT !.type = y.res]))

InstEach(s, xs, i, acc, atLevel, uc) ==
  IF i > Len(xs) THEN [s EXCEPT !.m = acc]
  ELSE IF xs[i] = 0 THEN InstEach(s, xs, i + 1, Append(acc, 0), atLevel, uc)
  ELSE With(Instantiate(s, xs[i], atLevel, uc), LAMBDA r :
         InstEach(r, xs, i + 1, Append(acc, r.res), atLevel, uc))

\* -------------------------------------------------------------- generalize
\* if (kind == Unbound) { if (level >= atLevel) ... }: whether generalize turns
\* the Unbound variable n into a Generic.
GeneralizesAll(n, atLevel) == TRUE

Generalizes(n, atLevel) == n.level >= atLevel

RECURSIVE Generalize(_, _, _), GenEach(_, _, _, _, _)
\* Type::generalize(atLevel): res is the generalized type. A Generic and an
\* Unbound variable below atLevel are returned as they are
\* (shared_from_this), an Unbound variable at or above atLevel gives a new
\* Generic node with its id, a Link gives what its target gives, any other
\* node a copy over its generalized children.
Generalize(s, x, atLevel) ==
  LET n == s.h[x] IN
    IF Stop(s) THEN s
    ELSE IF n.k = "link" THEN
      IF n.kind = "Generic" THEN [s EXCEPT !.res = x]
      ELSE IF n.kind = "Unbound" THEN
        IF Generalizes(n, atLevel) THEN
          With(IF n.trait # 0 THEN Generalize(s, n.trait, atLevel)
               ELSE [s EXCEPT !.res = 0], LAMBDA tr :
            New(tr, LinkType("Generic", n.id, 0, 0, n.isStatic, tr.res)))
        ELSE [s EXCEPT !.res = x]
      ELSE Generalize(s, n.type, atLevel)
    ELSE IF n.k \in {"class", "static"} THEN
      With(GenEach(s, n.generics, 1, <<>>, atLevel), LAMBDA g :
        New(g, [n EXCEPT !.generics = g.m]))
    ELSE IF n.k \in {"record", "partial", "union"} THEN
      With(GenEach(s, n.generics, 1, <<>>, atLevel), LAMBDA g :
        With(GenEach(g, n.args, 1, <<>>, atLevel), LAMBDA a :
          New(a, [n EXCEPT !.generics = g.m, !.args = a.m])))
    ELSE IF n.k = "func" THEN
      With(GenEach(s, n.funcGenerics, 1, <<>>, atLevel), LAMBDA fg :
        With(IF n.funcParent # 0 THEN Generalize(fg, n.funcParent, atLevel)
             ELSE [fg EXCEPT !.res = 0], LAMBDA p :
          With(GenEach(p, n.generics, 1, <<>>, atLevel), LAMBDA g :
            With(GenEach(g, n.args, 1, <<>>, atLevel), LAMBDA a :
              New(a, [n EXCEPT !.funcGenerics = fg.m, !.funcParent = p.res,
                               !.generics = g.m, !.args = a.m])))))
    ELSE IF n.k = "callable" THEN
      With(GenEach(s, n.args, 1, <<>>, atLevel), LAMBDA a :
        New(a, [n EXCEPT !.args = a.m]))
    ELSE
      With(Generalize(s, n.type, atLevel), LAMBDA y :
        New(y, [n EXCEPT !.type = y.res]))

GenEach(s, xs, i, acc, atLevel) ==
  IF i > Len(xs) THEN [s EXCEPT !.m = acc]
  ELSE IF xs[i] = 0 THEN GenEach(s, xs, i + 1, Append(acc, 0), atLevel)
  ELSE With(Generalize(s, xs[i], atLevel), LAMBDA r :
         GenEach(r, xs, i + 1, Append(acc, r.res), atLevel))

\* ------------------------------------------------------------ realizedName
\* A realized name is a sequence of tokens; Token gives each the rank of its
\* text in the order std::map<std::string, ...> sorts by (ASCII: ',' before
\* the digits, then ':' and '?', the upper-case names, '[' and ']', the
\* lower-case names).
Token(name) ==
  CASE name = "," -> 1
    [] name = ":" -> 12
    [] name = "?" -> 13
    [] name = "Function" -> 20
    [] name = "Int" -> 21
    [] name = "List" -> 22
    [] name = "NoneType" -> 23
    [] name = "Partial.N" -> 24
    [] name = "Tuple.N0" -> 25
    [] name = "Tuple.N1" -> 26
    [] name = "Tuple.N2" -> 27
    [] name = "Tuple.N3" -> 28
    [] name = "Union" -> 29
    [] name = "[" -> 30
    [] name = "]" -> 31
    [] name = "bad" -> 40
    [] name = "f" -> 41
    [] name = "float" -> 42
    [] name = "g" -> 43
    [] name = "int" -> 44
    [] name = "str" -> 45

RECURSIVE Digits(_)
\* StaticValue::toString of a non-negative integer: its decimal digits.
Digits(v) == IF v < 10 THEN <<2 + v>> ELSE Digits(v \div 10) \o <<2 + (v % 10)>>

RECURSIVE LexLess(_, _)
\* std::string operator< on token sequences.
LexLess(a, b) ==
  IF Len(b) = 0 THEN FALSE
  ELSE IF Len(a) = 0 THEN TRUE
  ELSE IF Head(a) # Head(b) THEN Head(a) < Head(b)
  ELSE LexLess(Tail(a), Tail(b))

RECURSIVE JoinSorted(_)
\* for (auto &i : gss) s += "," + i; over the std::set<std::string> gss: the
\* names in ascending order, each once, each after a comma.
JoinSorted(names) ==
  IF names = {} THEN <<>>
  ELSE LET n == CHOOSE a \in names : \A b \in names : ~LexLess(b, a)
       IN <<Token(",")>> \o n \o JoinSorted(names \ {n})

\* s.empty() ? "" : fmt::format("[{}]", s)
Bracket(s) == IF Len(s) = 0 THEN <<>> ELSE <<Token("[")>> \o s \o <<Token("]")>>

RECURSIVE RealizedName(_, _), JoinNames(_, _, _)
\* join(gs, ",") of the realized names of xs[i], xs[i+1], ...
JoinNames(h, xs, i) ==
  IF i > Len(xs) THEN <<>>
  ELSE (IF i > 1 THEN <<Token(",")>> ELSE <<>>) \o RealizedName(h, xs[i])
       \o JoinNames(h, xs, i + 1)

\* LinkType/ClassType/FuncType/PartialType/StaticType/UnionType::realizedName
RealizedName(h, x) ==
  LET n == h[x] IN
    IF n.k = "link" THEN
      IF n.kind = "Link" THEN RealizedName(h, n.type) ELSE <<Token("?")>>
    ELSE IF n.k = "static" THEN Digits(Evaluate(h, x))
    ELSE IF n.k = "func" THEN
      (IF n.funcParent # 0 THEN RealizedName(h, n.funcParent) \o <<Token(":")>> ELSE <<>>)
      \o <<Token(n.ast)>>
      \o Bracket(JoinNames(h, GetArgTypes(h, x), 1)
                 \o (IF Len(n.funcGenerics) = 0 THEN <<>>
                     ELSE <<Token(",")>> \o JoinNames(h, n.funcGenerics, 1)))
    ELSE IF n.k = "partial" THEN
      <<Token(n.name)>>
      \o Bracket(<<Token(h[n.func].ast)>>
                 \o (IF Len(n.generics) = 0 THEN <<>>
                     ELSE <<Token(",")>> \o JoinNames(h, n.generics, 1)))
    ELSE IF n.k = "union" THEN
      <<Token(n.name)>>
      \o Bracket(IF Len(n.generics) = 0 THEN <<>>
                 ELSE Tail(JoinSorted({RealizedName(h, n.generics[i]) :
                                         i \in 1..Len(n.generics)})))
    ELSE IF CanRealize(h, x) THEN <<Token(n.name)>> \o Bracket(JoinNames(h, n.generics, 1))
    ELSE <<>>

RECURSIVE SortByKey(_)
\* The iteration order of a std::map: pairs <<key, address>> by ascending key.
SortByKey(m) ==
  IF Len(m) = 0 THEN <<>>
  ELSE LET i == CHOOSE j \in 1..Len(m) : \A k \in 1..Len(m) : ~LexLess(m[k][1], m[j][1])
       IN <<m[i]>> \o SortByKey(SubSeq(m, 1, i - 1) \o SubSeq(m, i + 1, Len(m)))

\* ------------------------------------------------------------------- unify
RECURSIVE Unify(_, _, _, _), UnifyEach(_, _, _, _, _, _), LinkUnify(_, _, _, _),
          UnionUnify(_, _, _, _), CallableUnify(_, _, _, _),
          UnionAbsorb(_, _, _, _, _), UnionSum(_, _, _, _, _, _)

\* A loop that goes on after a pair that does not unify.
UnifyEachLenient(s, xs, ys, i, acc, u) ==
  IF i > Len(xs) THEN [s EXCEPT !.ret = acc]
  ELSE With(Unify(s, xs[i], ys[i], u), LAMBDA r :
         UnifyEach([r EXCEPT !.ret = 0], xs, ys, i + 1,
                   acc + (IF r.ret = -1 THEN 0 ELSE r.ret), u))

\* for (i...) if ((s = xs[i]->unify(ys[i], us)) == -1) return -1; else s1 += s;
UnifyEach(s, xs, ys, i, acc, u) ==
  IF i > Len(xs) THEN [s EXCEPT !.ret = acc]
  ELSE OrFail(Unify(s, xs[i], ys[i], u), LAMBDA r :
         UnifyEach(r, xs, ys, i + 1, acc + r.ret, u))

\* A binding that does not look at the undo log: it binds without one too.
BindAlways(s, v, t, u) ==
  LET give == s.h[t].k = "link" /\ s.h[v].trait # 0 /\ s.h[t].kind = "Unbound"
                /\ s.h[t].trait = 0
      h1 == [s.h EXCEPT ![v].kind = "Link", ![v].type = t]
      h2 == IF give THEN [h1 EXCEPT ![t].trait = s.h[v].trait] ELSE h1
  IN
    With(OnCycle(h2, v) \/ OnCycle(h2, t), LAMBDA cyc :
      [s EXCEPT !.h = h2,
                !.undo.linked = Append(@, v),
                !.undo.traits = IF give THEN Append(@, t) ELSE @,
                !.loop = cyc,
                !.ret = IF cyc THEN -1 ELSE 0])

\* The destructive part of LinkType::unify: v becomes a Link to t =
\* typ->follow(), and hands its trait to an Unbound target that has none.
\* Without an undo log nothing is changed.
Bind(s, v, t, u) ==
  LET tr == s.h[v].trait
      give == s.h[t].k = "link" /\ s.h[v].trait # 0 /\ s.h[t].kind = "Unbound"
                /\ s.h[t].trait = 0
      h1 == [s.h EXCEPT ![v].kind = "Link", ![v].type = t]
      h2 == IF give THEN [h1 EXCEPT ![t].trait = tr] ELSE h1
  IN
    IF ~u THEN [s EXCEPT !.ret = 0]
    ELSE With(OnCycle(h2, v) \/ OnCycle(h2, t), LAMBDA cyc :
           [s EXCEPT !.h = h2,
                     !.undo.linked = Append(@, v),
                     !.undo.traits = IF give THEN Append(@, t) ELSE @,
                     !.loop = cyc,
                     !.ret = IF cyc THEN -1 ELSE 0])

\* Case 3 of LinkType::unify after the link/link cases: occurs check, trait
\* check, then the binding.
BindChecked(s, v, typ, u) ==
  With(Occurs(s, v, typ, u), LAMBDA o :
    IF o.occ THEN [o EXCEPT !.ret = -1]
    ELSE IF o.h[v].trait = 0 THEN Bind(o, v, Follow(o.h, typ), u)
    ELSE OrFail(Unify(o, o.h[v].trait, typ, u), LAMBDA t :
           Bind(t, v, Follow(t.h, typ), u)))

\* LinkType::unify without the "merge a newer type into the older type" case:
\* the receiver is bound whatever the two ids are.
LinkUnifyNoSwap(s, v, typ, u) ==
  LET h == s.h
      n == s.h[v]
      ts == GetStatic(s.h, typ)
      t == s.h[typ]
  IN
    IF n.kind = "Link" THEN Unify(s, n.type, typ, u)
    ELSE IF n.kind = "Generic" THEN [s EXCEPT !.ret = -1]
    ELSE IF IsStaticType(h, v) # IsStaticType(h, typ) THEN [s EXCEPT !.ret = -1]
    ELSE IF ts # 0 /\ h[ts].expr = "id" THEN LinkUnify(s, v, h[ts].generics[1], u)
    ELSE IF t.k = "link" /\ t.kind = "Link" THEN Unify(s, t.type, v, u)
    ELSE IF t.k = "link" /\ t.kind = "Generic" THEN [s EXCEPT !.ret = -1]
    ELSE IF t.k = "link" /\ n.id = t.id THEN [s EXCEPT !.ret = 1]
    ELSE BindChecked(s, v, typ, u)

\* LinkType::unify
LinkUnify(s, v, typ, u) ==
  LET h == s.h
      n == s.h[v]
      ts == GetStatic(s.h, typ)
      t == s.h[typ]
  IN
    IF n.kind = "Link" THEN Unify(s, n.type, typ, u)
    ELSE IF n.kind = "Generic" THEN [s EXCEPT !.ret = -1]
    ELSE IF IsStaticType(h, v) # IsStaticType(h, typ) THEN [s EXCEPT !.ret = -1]
    ELSE IF ts # 0 /\ h[ts].expr = "id" THEN LinkUnify(s, v, h[ts].generics[1], u)
    ELSE IF t.k = "link" /\ t.kind = "Link" THEN Unify(s, t.type, v, u)
    ELSE IF t.k = "link" /\ t.kind = "Generic" THEN [s EXCEPT !.ret = -1]
    ELSE IF t.k = "link" /\ n.id = t.id THEN [s EXCEPT !.ret = 1]
    ELSE IF t.k = "link" /\ n.id < t.id THEN Unify(s, typ, v, u)
    ELSE BindChecked(s, v, typ, u)

\* ClassType::unify reporting a name mismatch by an exception.
ClassUnifyThrows(s, c, typ, u) ==
  LET h == s.h
      tc == GetClass(s.h, typ)
  IN
    IF tc # 0 THEN
      IF h[c].name # h[tc].name THEN [s EXCEPT !.exc = TRUE, !.ret = -1]
      ELSE IF Len(h[c].generics) # Len(h[tc].generics) THEN [s EXCEPT !.ret = -1]
      ELSE UnifyEach(s, h[c].generics, h[tc].generics, 1, 3, u)
    ELSE IF GetLink(h, typ) # 0 THEN Unify(s, typ, c, u)
    ELSE [s EXCEPT !.ret = -1]

\* ClassType::unify
ClassUnify(s, c, typ, u) ==
  LET h == s.h
      tc == GetClass(s.h, typ)
  IN
    IF tc # 0 THEN
      IF h[c].name # h[tc].name THEN [s EXCEPT !.ret = -1]
      ELSE IF Len(h[c].generics) # Len(h[tc].generics) THEN [s EXCEPT !.ret = -1]
      ELSE UnifyEach(s, h[c].generics, h[tc].generics, 1, 3, u)
    ELSE IF GetLink(h, typ) # 0 THEN Unify(s, typ, c, u)
    ELSE [s EXCEPT !.ret = -1]

\* RecordType::unify
RecordUnify(s, r, typ, u) ==
  LET h == s.h
      tr == GetRecord(s.h, typ)
  IN
    IF tr # 0 THEN
      IF h[r].name = "int" /\ h[tr].name = "Int" THEN Unify(s, tr, r, u)
      ELSE IF h[tr].name = "int" /\ h[r].name = "Int" THEN
        \* auto t64 = std::make_shared<StaticType>(64)
        With(New(s, StaticInt(64)), LAMBDA t64 :
          IF t64.oom THEN [t64 EXCEPT !.ret = -1]
          ELSE Unify(t64, h[r].generics[1], t64.res, u))
      ELSE IF Len(h[r].args) # Len(h[tr].args) THEN [s EXCEPT !.ret = -1]
      ELSE
        OrFail(UnifyEach(s, h[r].args, h[tr].args, 1, 2, u), LAMBDA a :
          IF IsTuple(h[r].name) \/ IsTuple(h[tr].name) THEN
            [a EXCEPT !.ret = a.ret + (IF h[r].name = h[tr].name THEN 1 ELSE 0)]
          ELSE ClassUnify(a, r, tr, u))
    ELSE IF GetLink(h, typ) # 0 THEN Unify(s, typ, r, u)
    ELSE [s EXCEPT !.ret = -1]

\* FuncType::unify
FuncUnify(s, f, typ, u) ==
  LET h == s.h
      t == GetFunc(s.h, typ)
  IN
    IF f = typ THEN [s EXCEPT !.ret = 0]
    ELSE
      OrFail(
        IF t = 0 THEN [s EXCEPT !.ret = 2]
        ELSE IF h[f].ast # h[t].ast \/ ((h[f].funcParent # 0) # (h[t].funcParent # 0))
          THEN [s EXCEPT !.ret = -1]
        ELSE
          OrFail(IF h[f].funcParent # 0 THEN Unify(s, h[f].funcParent, h[t].funcParent, u)
                 ELSE [s EXCEPT !.ret = 0], LAMBDA p :
            UnifyEach(p, h[f].funcGenerics, h[t].funcGenerics, 1, 2 + p.ret, u)),
        LAMBDA g :
          OrFail(RecordUnify(g, f, typ, u), LAMBDA r : [r EXCEPT !.ret = g.ret + r.ret]))

\* StaticType::unify
StaticUnify(s, x, typ, u) ==
  LET t == GetStatic(s.h, typ) IN
    IF t # 0 THEN
      With(SetEvaluated(SetEvaluated(s, x), t), LAMBDA e :
        IF e.exc THEN e
        ELSE IF e.h[x].stype # e.h[t].stype THEN [e EXCEPT !.ret = -1]
        ELSE IF e.h[x].evaluated /\ e.h[t].evaluated THEN
          [e EXCEPT !.ret = IF e.h[x].value = e.h[t].value THEN 2 ELSE -1]
        ELSE IF e.h[x].evaluated THEN Unify(e, typ, x, u)
        ELSE IF e.h[x].expr = "id" /\ e.h[t].evaluated
          THEN Unify(e, e.h[x].generics[1], typ, u)
        ELSE IF Len(e.h[x].generics) # Len(e.h[t].generics) THEN [e EXCEPT !.ret = -1]
        ELSE IF ~(e.h[x].expr = "id" /\ e.h[t].expr = "id") /\ e.h[x].expr # e.h[t].expr
          THEN [e EXCEPT !.ret = -1]
        ELSE UnifyEach(e, e.h[x].generics, e.h[t].generics, 1, 2, u))
    ELSE IF GetLink(s.h, typ) # 0 THEN Unify(s, typ, x, u)
    ELSE [s EXCEPT !.ret = -1]

\* TypeTrait::unify
TypeTraitUnify(s, tt, typ, u) == Unify(s, typ, s.h[tt].type, u)

\* Virtual dispatch of Type::unify on the dynamic class of a.
Unify(s, a, typ, u) ==
  LET k == s.h[a].k IN
    IF Stop(s) THEN [s EXCEPT !.ret = -1]
    ELSE IF k = "link" THEN LinkUnify(s, a, typ, u)
    ELSE IF k = "class" THEN ClassUnify(s, a, typ, u)
    ELSE IF k \in {"record", "partial"} THEN RecordUnify(s, a, typ, u)
    ELSE IF k = "func" THEN FuncUnify(s, a, typ, u)
    ELSE IF k = "static" THEN StaticUnify(s, a, typ, u)
    ELSE IF k = "union" THEN UnionUnify(s, a, typ, u)
    ELSE IF k = "callable" THEN CallableUnify(s, a, typ, u)
    ELSE TypeTraitUnify(s, a, typ, u)

\* The index of key in the map m of pairs <<key, address>>, 0 when absent.
In(m, key) ==
  IF \E j \in 1..Len(m) : m[j][1] = key
  THEN CHOOSE j \in 1..Len(m) : m[j][1] = key ELSE 0

RECURSIVE Dedup(_, _, _, _, _)
\* The loop of UnionType::unify that fills u1 (u2): the alternatives keyed by
\* realized name, a duplicate being unified with the one already there.
Dedup(s, gens, i, m, u) ==
  IF i > Len(gens) THEN [s EXCEPT !.m = m, !.ret = 0]
  ELSE
    With(RealizedName(s.h, gens[i]), LAMBDA key :
      IF In(m, key) = 0 THEN Dedup(s, gens, i + 1, Append(m, <<key, gens[i]>>), u)
      ELSE OrFail(Unify(s, gens[i], m[In(m, key)][2], u), LAMBDA r :
             Dedup(r, gens, i + 1, m, u)))

Seconds(m) == [i \in 1..Len(m) |-> m[i][2]]

\* for (auto &t : tu->generics) sc += unify(t.type.get(), us);
UnionSum(s, un, alts, i, acc, u) ==
  IF Stop(s) THEN [s EXCEPT !.ret = -1]
  ELSE IF i > Len(alts) THEN [s EXCEPT !.ret = acc]
  ELSE With(UnionUnify(s, un, alts[i], u), LAMBDA r :
         UnionSum(r, un, alts, i + 1, acc + r.ret, u))

\* An absorption that puts the new alternative first.
UnionAbsorbFirst(s, un, typ, i, u) ==
  IF Stop(s) THEN [s EXCEPT !.ret = -1]
  ELSE IF i = 0 THEN [s EXCEPT !.h[un].generics = <<typ>> \o @, !.ret = 1]
  ELSE With(Unify(s, s.h[un].generics[i], typ, FALSE), LAMBDA probe :
         IF probe.ret >= 0 THEN Unify(probe, probe.h[un].generics[i], typ, u)
         ELSE UnionAbsorb(probe, un, typ, i - 1, u))

\* The "add new type" loop: from the last alternative to the first, the first
\* that unifies with typ (probed with a null undo log) is unified with it;
\* with none, typ is appended.
UnionAbsorb(s, un, typ, i, u) ==
  IF Stop(s) THEN [s EXCEPT !.ret = -1]
  ELSE IF i = 0 THEN
    With([s.h EXCEPT ![un].generics = Append(@, typ)], LAMBDA h1 :
      With(OnCycle(h1, un), LAMBDA cyc :
        [s EXCEPT !.h = h1, !.loop = cyc, !.ret = IF cyc THEN -1 ELSE 1]))
  ELSE With(Unify(s, s.h[un].generics[i], typ, FALSE), LAMBDA probe :
         IF probe.ret >= 0 THEN Unify(probe, probe.h[un].generics[i], typ, u)
         ELSE UnionAbsorb(probe, un, typ, i - 1, u))

\* UnionType::unify
UnionUnify(s, un, typ, u) ==
  LET h == s.h
      tu == GetUnion(s.h, typ)
  IN
    IF h[un].sealed /\ tu # 0 THEN
      IF ~CanRealize(h, un) \/ ~CanRealize(h, tu) THEN [s EXCEPT !.ret = 0]
      ELSE
        OrFail(Dedup(s, h[un].generics, 1, <<>>, u), LAMBDA d1 :
          OrFail(Dedup(d1, h[tu].generics, 1, <<>>, u), LAMBDA d2 :
            IF Len(d1.m) # Len(d2.m) THEN [d2 EXCEPT !.ret = -1]
            ELSE UnifyEach(d2, Seconds(SortByKey(d1.m)), Seconds(SortByKey(d2.m)),
                           1, 2, u)))
    ELSE IF ~h[un].sealed THEN
      IF tu # 0 THEN UnionSum(s, un, h[tu].generics, 1, 0, u)
      ELSE UnionAbsorb(s, un, typ, Len(h[un].generics), u)
    ELSE IF GetLink(h, typ) # 0 THEN Unify(s, typ, un, u)
    ELSE [s EXCEPT !.ret = -1]

\* The indices of the parameters a partial's name marks unknown ('0').
Zeros(known) == {i \in 1..Len(known) : ~known[i]}

RECURSIVE PartialArgs(_, _, _, _, _, _, _)
\* for (pi...) if (!pt->known[pi]) if (inargs[gi++]->unify(pf args[pi]) == -1) return -1
PartialArgs(s, inargs, pargs, known, pi, gi, u) ==
  IF pi > Len(known) THEN [s EXCEPT !.ret = 0]
  ELSE IF known[pi] THEN PartialArgs(s, inargs, pargs, known, pi + 1, gi, u)
  ELSE OrFail(Unify(s, inargs[gi], pargs[pi], u), LAMBDA r :
         PartialArgs(r, inargs, pargs, known, pi + 1, gi + 1, u))

\* The functions whose body has a type error.
BodyRaises(ast) == ast = "bad"

\* TypecheckVisitor::realize of the realizable function pf, then
\* pf->unify(rf): type-checking the body raises, or yields the realization rf,
\* whose types are those of pf.
Realize(s, pf) ==
  IF BodyRaises(s.h[pf].ast) THEN [s EXCEPT !.exc = TRUE, !.ret = -1]
  ELSE [s EXCEPT !.ret = 0]

\* CallableTrait::unify
CallableUnify(s, ct, typ, u) ==
  LET h == s.h
      args == s.h[ct].args
      tr == GetRecord(s.h, typ)
      tl == s.h[typ]
      inargs == s.h[GetRecord(s.h, s.h[ct].args[1])].args
      one(r) == [r EXCEPT !.ret = 1]
  IN
    IF tr # 0 THEN
      IF h[tr].name = "NoneType" THEN one(s)
      ELSE IF Len(args) = 0 THEN
        [s EXCEPT !.ret = IF h[tr].name = "Function" \/ h[tr].k = "partial" THEN 1 ELSE -1]
      ELSE IF h[tr].name = "Function" THEN
        IF Len(args) # Len(h[tr].generics) THEN [s EXCEPT !.ret = -1]
        ELSE IF Len(inargs) # Len(GetArgTypes(h, tr)) THEN [s EXCEPT !.ret = -1]
        ELSE OrFail(UnifyEach(s, inargs, GetArgTypes(h, tr), 1, 0, u), one)
      ELSE IF h[tr].k = "partial" THEN
        IF Cardinality(Zeros(h[tr].known)) # Len(inargs) THEN [s EXCEPT !.ret = -1]
        ELSE
          \* int ic = 0; std::unordered_map<int, TypePtr> c;
          \* auto pf = pt->func->instantiate(0, &ic, &c)->getFunc();
          With(Instantiate([s EXCEPT !.cnt = 0, !.cache = <<>>], h[tr].func, 0, TRUE),
               LAMBDA pf :
            IF pf.oom THEN [pf EXCEPT !.ret = -1]
            ELSE
              OrFail(PartialArgs(pf, inargs, GetArgTypes(pf.h, pf.res), h[tr].known,
                                 1, 1, u), LAMBDA a :
                \* if (us && us->realizator && pf->canRealize()) {
                \*   auto rf = us->realizator->realize(pf); pf->unify(rf.get(), us); }
                OrFail(IF u /\ a.realizator /\ CanRealize(a.h, pf.res)
                       THEN Realize(a, pf.res) ELSE a, LAMBDA z :
                  OrFail(Unify(z, args[2], GetRetType(z.h, pf.res), u), one))))
      ELSE [s EXCEPT !.ret = -1]
    ELSE IF tl.k = "link" /\ tl.kind = "Link" THEN CallableUnify(s, ct, tl.type, u)
    ELSE IF tl.k = "link" /\ tl.kind = "Unbound" THEN
      IF tl.trait = 0 THEN one(s)
      ELSE IF h[tl.trait].k # "callable" \/ Len(h[tl.trait].args) # Len(args)
        THEN [s EXCEPT !.ret = -1]
      ELSE OrFail(UnifyEach(s, args, h[tl.trait].args, 1, 0, u), one)
    ELSE [s EXCEPT !.ret = -1]

\* -------------------------------------------------------------------- undo
RECURSIVE UndoLinked(_, _, _), UndoLeveled(_, _, _), UndoTraits(_, _, _),
          UndoLinkedKindOnly(_, _, _)
\* An undo of the links that resets the kind and leaves the target.
UndoLinkedKindOnly(h, linked, i) ==
  IF i = 0 THEN h
  ELSE UndoLinkedKindOnly([h EXCEPT ![linked[i]].kind = "Unbound"], linked, i - 1)

\* for (i = linked.size() - 1; i >= 0; i--) { kind = Unbound; type = nullptr; }
UndoLinked(h, linked, i) ==
  IF i = 0 THEN h
  ELSE UndoLinked([h EXCEPT ![linked[i]].kind = "Unbound", ![linked[i]].type = 0],
                  linked, i - 1)
\* for (i = leveled.size() - 1; i >= 0; i--) level = leveled[i].second;
UndoLeveled(h, leveled, i) ==
  IF i = 0 THEN h
  ELSE UndoLeveled([h EXCEPT ![leveled[i][1]].level = leveled[i][2]], leveled, i - 1)
\* for (auto &t : traits) t->trait = nullptr;
UndoTraits(h, traits, i) ==
  IF i > Len(traits) THEN h
  ELSE UndoTraits([h EXCEPT ![traits[i]].trait = 0], traits, i + 1)

\* Type::Unification::undo
UndoLog(h, ul) ==
  UndoTraits(UndoLeveled(UndoLinked(h, ul.linked, Len(ul.linked)),
                         ul.leveled, Len(ul.leveled)),
             ul.traits, 1)

\* ---------------------------------------------------------- initial graphs
MkHeap(nodes) == [x \in Addr |-> IF x <= Len(nodes) THEN nodes[x] ELSE NoNode]

Var(n, level) == LinkType("Unbound", UnboundCountInit + n, level, 0, 0, 0)
VarT(n, level, trait) == LinkType("Unbound", UnboundCountInit + n, level, 0, 0, trait)
VarS(n, level) == LinkType("Unbound", UnboundCountInit + n, level, 0, 1, 0)
Tuple1(a) == RecordType("Tuple.N1", <<a>>, <<a>>)
Tuple2(a, b) == RecordType("Tuple.N2", <<a, b>>, <<a, b>>)

\* Variables, classes and tuples: ?256, ?257, int, str, List[?256], List[int],
\* Tuple[?257,int], Tuple[str,str], List[List[?256]].
GraphLinks(l2) ==
  <<Var(0, 0), Var(1, l2), RecordType("int", <<>>, <<>>), RecordType("str", <<>>, <<>>),
    ClassType("List", <<1>>), ClassType("List", <<3>>), Tuple2(2, 3), Tuple2(4, 4),
    ClassType("List", <<5>>)>>

\* Traits: ?256, ?257: Trait[int], ?258: Callable[[?256], int], int, the two
\* traits, Tuple[?256], Function[[str], int], Tuple[str], str, List[?258].
GraphTraits(l2) ==
  <<Var(0, 0), VarT(1, l2, 5), VarT(2, l2, 6), RecordType("int", <<>>, <<>>),
    TypeTrait(4), CallableTrait(<<7, 4>>), Tuple1(1),
    RecordType("Function", <<9, 4>>, <<>>), Tuple1(10), RecordType("str", <<>>, <<>>),
    ClassType("List", <<3>>)>>

\* Statics: N: ?256 and M: ?257 (static), 0, 64, Static[N], Static[N+1],
\* Static[64//M], Int[N], int.
GraphStatics ==
  <<VarS(0, 0), VarS(1, 0), StaticInt(0), StaticInt(64), StaticExpr("id", <<1>>),
    StaticExpr("plus1", <<1>>), StaticExpr("div", <<2>>), RecordType("Int", <<1>>, <<>>),
    RecordType("int", <<>>, <<>>)>>

\* Unions and functions: ?256, int, str, List[?256], an open Union[], the
\* sealed Union[int,str], f[T=?256]() -> int, Tuple[], an open Union[List[?256]],
\* the sealed Union[str,int].
GraphUnions ==
  <<Var(0, 0), RecordType("int", <<>>, <<>>), RecordType("str", <<>>, <<>>),
    ClassType("List", <<1>>), UnionType(<<>>, FALSE), UnionType(<<2, 3>>, TRUE),
    FuncType("f", <<8, 2>>, <<1>>, 0), RecordType("Tuple.N0", <<>>, <<>>),
    UnionType(<<4>>, FALSE), UnionType(<<3, 2>>, TRUE)>>

\* Partial calls: ?256: Callable[[int], ?257], ?257, int, the trait,
\* Tuple[int], the generic T, g[T](x: T) -> T, Tuple[T], the partial g(...),
\* str, bad[T](x: T) -> T whose body has a type error, the partial bad(...).
GraphPartials ==
  <<VarT(0, 0, 4), Var(1, 0), RecordType("int", <<>>, <<>>), CallableTrait(<<5, 2>>),
    Tuple1(3), LinkType("Generic", UnboundCountInit + 2, 0, 0, 0, 0),
    FuncType("g", <<8, 6>>, <<6>>, 0), Tuple1(6),
    PartialType("Partial.N", <<>>, <<>>, 7, <<FALSE>>),
    RecordType("str", <<>>, <<>>), FuncType("bad", <<8, 6>>, <<6>>, 0),
    PartialType("Partial.N", <<>>, <<>>, 11, <<FALSE>>)>>

Levels == 0..MaxLevel

Graphs ==
  {GraphLinks(l) : l \in Levels} \cup {GraphTraits(l) : l \in Levels}
    \cup {GraphStatics, GraphUnions, GraphPartials}

\* The ids of the Unbound and Generic variables of a graph, oldest first: each
\* was drawn from Cache::unboundCount.
RECURSIVE IdsOf(_, _)
IdsOf(nodes, i) ==
  IF i > Len(nodes) THEN <<>>
  ELSE (IF nodes[i].k = "link" THEN <<nodes[i].id>> ELSE <<>>) \o IdsOf(nodes, i + 1)

\* The engine before anything is realized or inferred.
NoCache == [functions |-> <<>>, classes |-> <<>>, pendingRealizations |-> {}]
NoCtx == [realizationDepth |-> 0, bases |-> <<>>, changedNodes |-> 0,
          typecheckLevel |-> 0, pendingDefaults |-> <<>>, blocks |-> 0]
NoRun == [pc |-> "off"]
EngineIdle == cache = NoCache /\ ctx = NoCtx /\ suite = <<>> /\ run = NoRun

NoOp == [name |-> "none", a |-> 0, b |-> 0, ret |-> 0, ret2 |-> 0, undoOnSuccess |-> FALSE]

Init ==
  \E g \in Graphs :
    /\ heap = MkHeap(g)
    /\ roots = 1..Len(g)
    /\ undo = EmptyUndo
    /\ pc = "idle"
    /\ op = NoOp
    /\ pre = MkHeap(g)
    /\ created = IdsOf(g, 1)
    /\ unboundCount = UnboundCountInit + Len(IdsOf(g, 1))
    /\ calls = 0
    /\ EngineIdle

\* ----------------------------------------------------------------- actions
\* The types a caller passes to unify: the ones the AST holds (a trait is
\* only ever reached through its variable).
Types == {x \in roots : heap[x].k \notin {"none", "callable", "typetrait"}}

Idle == pc = "idle" /\ calls < MaxCalls

\* Where the caller is after a unify call that ended as r: it returned (to),
\* an exception left it, or the graph became cyclic under it.
After(r, to) == IF r.exc THEN "raised" ELSE IF r.loop THEN "cyclic" ELSE to

\* A caller unifies a and b speculatively with a fresh undo log:
\*   Type::Unification undo; a->unify(b.get(), &undo);
Probe(a, b) ==
  /\ Idle
  /\ \E r \in {Unify(Run(heap, EmptyUndo, created), a, b, TRUE)} :
      /\ ~r.oom
      /\ heap' = r.h
      /\ undo' = r.undo
      /\ created' = r.created
      /\ pre' = heap
      /\ op' = [NoOp EXCEPT !.name = "probe", !.a = a, !.b = b, !.ret = r.ret]
      /\ pc' = After(r, "probed")
      /\ calls' = calls + 1
      /\ UNCHANGED <<roots, unboundCount, engine>>

\* ... and rolls it back: undo.undo()
Undo ==
  /\ pc = "probed"
  /\ heap' = UndoLog(heap, undo)
  /\ pc' = "undone"
  /\ UNCHANGED <<roots, undo, op, pre, unboundCount, created, calls, engine>>

\* ... and unifies the same two types again with a second log.
Retry ==
  /\ pc = "undone"
  /\ \E r \in {Unify(Run(heap, EmptyUndo, created), op.a, op.b, TRUE)} :
      /\ ~r.oom
      /\ heap' = r.h
      /\ undo' = r.undo
      /\ created' = r.created
      /\ op' = [op EXCEPT !.name = "retry", !.ret2 = r.ret]
      /\ pc' = After(r, "retried")
      /\ UNCHANGED <<roots, pre, unboundCount, calls, engine>>

\* The caller goes on: the log goes out of scope, what it did stays.
Return ==
  /\ pc \in {"probed", "retried", "done"}
  /\ heap' = Collect(heap, roots)
  /\ pre' = Collect(heap, roots)
  /\ undo' = EmptyUndo
  /\ op' = NoOp
  /\ pc' = "idle"
  /\ UNCHANGED <<roots, unboundCount, created, calls, engine>>

\* A check that binds nothing: a->unify(b.get(), nullptr)
UnifyNull(a, b) ==
  /\ Idle
  /\ \E r \in {Unify(Run(heap, EmptyUndo, created), a, b, FALSE)} :
      /\ ~r.oom
      /\ heap' = r.h
      /\ created' = r.created
      /\ pre' = heap
      /\ op' = [NoOp EXCEPT !.name = "null", !.a = a, !.b = b, !.ret = r.ret]
      /\ pc' = After(r, "done")
      /\ calls' = calls + 1
      /\ UNCHANGED <<roots, undo, unboundCount, engine>>

\* ctx->addUnbound(expr, level): a fresh variable whose id is
\* cache->unboundCount++.
AddUnbound(level) ==
  /\ Idle
  /\ ~Oom(heap)
  /\ heap' = [heap EXCEPT ![Alloc(heap)] = LinkType("Unbound", unboundCount, level, 0, 0, 0)]
  /\ pre' = heap'
  /\ roots' = roots \cup {Alloc(heap)}
  /\ unboundCount' = unboundCount + 1
  /\ created' = Append(created, unboundCount)
  /\ calls' = calls + 1
  /\ UNCHANGED <<undo, pc, op, engine>>

\* A rollback that does nothing.
UndoneNot(r) == r

\* undo.undo() on the running state r.
Undone(r) == [r EXCEPT !.h = UndoLog(r.h, r.undo)]

\* TypecheckVisitor::unify(a, b, undoOnSuccess): r is the first attempt, out
\* the state the call ends in.
TypecheckUnify(a, b, undoOnSuccess) ==
  /\ Idle
  /\ \E r \in {Unify([Run(heap, EmptyUndo, created) EXCEPT !.realizator = TRUE], a, b, TRUE)} :
      \E out \in {IF Stop(r) THEN r
                  ELSE IF r.ret >= 0 THEN (IF undoOnSuccess THEN Undone(r) ELSE r)
                  ELSE IF ~undoOnSuccess THEN Unify(Undone(r), a, b, TRUE)
                  ELSE Undone(r)} :
        /\ ~out.oom
        /\ heap' = out.h
        /\ undo' = out.undo
        /\ created' = out.created
        /\ pre' = heap
        /\ op' = [NoOp EXCEPT !.name = "typecheck", !.a = a, !.b = b, !.ret = r.ret,
                              !.undoOnSuccess = undoOnSuccess]
        /\ pc' = After(out, IF r.ret >= 0 THEN "done" ELSE "error")
        /\ calls' = calls + 1
        /\ UNCHANGED <<roots, unboundCount, engine>>

Next ==
  \/ \E a \in Types, b \in Types : Probe(a, b)
  \/ Undo
  \/ Retry
  \/ Return
  \/ \E a \in Types, b \in Types : UnifyNull(a, b)
  \/ \E a \in Types, b \in Types, undoOnSuccess \in BOOLEAN : TypecheckUnify(a, b, undoOnSuccess)
  \/ \E level \in Levels : AddUnbound(level)

Spec == Init /\ [][Next]_vars

\* ------------------------------------------------------ generic variables
\* Generalized variables among the types a caller unifies: the generic T, ?257,
\* int, List[T], an open Union[], the sealed Union[int,str], str, a variable
\* bound to T, ?259: Trait[int], the trait, an open Union[int], a static
\* generic N.
GraphFrozen ==
  <<LinkType("Generic", UnboundCountInit, 0, 0, 0, 0), Var(1, 0),
    RecordType("int", <<>>, <<>>), ClassType("List", <<1>>), UnionType(<<>>, FALSE),
    UnionType(<<3, 7>>, TRUE), RecordType("str", <<>>, <<>>),
    LinkType("Link", UnboundCountInit + 2, 0, 1, 0, 0), VarT(3, 0, 10), TypeTrait(3),
    UnionType(<<3>>, FALSE), LinkType("Generic", UnboundCountInit + 4, 0, 0, 1, 0)>>

InitFrozen ==
  /\ heap = MkHeap(GraphFrozen)
  /\ roots = 1..Len(GraphFrozen)
  /\ undo = EmptyUndo
  /\ pc = "idle"
  /\ op = NoOp
  /\ pre = MkHeap(GraphFrozen)
  /\ created = IdsOf(GraphFrozen, 1)
  /\ unboundCount = UnboundCountInit + Len(IdsOf(GraphFrozen, 1))
  /\ calls = 0
  /\ EngineIdle

SpecFrozen == InitFrozen /\ [][Next]_vars

\* ------------------------------------------------------------ nested unions
\* An open union that holds a variable bound to an open union: ?256, bound
\* to the open Union[] at 3, List[?256], the open Union[?256], int, str,
\* ?257, the sealed Union[int,str], f() -> int. The state is the one after
\* Union[].unify(?256) and ?256.unify(Union[]).
GraphNested ==
  <<LinkType("Link", UnboundCountInit, 0, 3, 0, 0), ClassType("List", <<1>>),
    UnionType(<<>>, FALSE), UnionType(<<1>>, FALSE), RecordType("int", <<>>, <<>>),
    RecordType("str", <<>>, <<>>), Var(1, 0), UnionType(<<5, 6>>, TRUE),
    FuncType("f", <<10, 5>>, <<>>, 0), RecordType("Tuple.N0", <<>>, <<>>)>>

InitNested ==
  /\ heap = MkHeap(GraphNested)
  /\ roots = 1..Len(GraphNested)
  /\ undo = EmptyUndo
  /\ pc = "idle"
  /\ op = NoOp
  /\ pre = MkHeap(GraphNested)
  /\ created = IdsOf(GraphNested, 1)
  /\ unboundCount = UnboundCountInit + Len(IdsOf(GraphNested, 1))
  /\ calls = 0
  /\ EngineIdle

SpecNested == InitNested /\ [][Next]_vars

\* ----------------------------------------------------------- sealed unions
\* Sealed unions among the types a caller unifies: ?256, int, str, List[?256],
\* Union[int,str], Union[str,int], Union[int,int,str], Union[int],
\* Union[List[?256]], List[int], Union[List[int],str], Union[str], all sealed.
GraphSealed ==
  <<Var(0, 0), RecordType("int", <<>>, <<>>), RecordType("str", <<>>, <<>>),
    ClassType("List", <<1>>), UnionType(<<2, 3>>, TRUE), UnionType(<<3, 2>>, TRUE),
    UnionType(<<2, 2, 3>>, TRUE), UnionType(<<2>>, TRUE), UnionType(<<4>>, TRUE),
    ClassType("List", <<2>>), UnionType(<<10, 3>>, TRUE), UnionType(<<3>>, TRUE)>>

InitSealed ==
  /\ heap = MkHeap(GraphSealed)
  /\ roots = 1..Len(GraphSealed)
  /\ undo = EmptyUndo
  /\ pc = "idle"
  /\ op = NoOp
  /\ pre = MkHeap(GraphSealed)
  /\ created = IdsOf(GraphSealed, 1)
  /\ unboundCount = UnboundCountInit + Len(IdsOf(GraphSealed, 1))
  /\ calls = 0
  /\ EngineIdle

SpecSealed == InitSealed /\ [][Next]_vars

\* ------------------------------------------------------------------ levels
\* Variables of two scopes among the types a caller unifies: ?256 of level 0,
\* ?257 of level 1, int, List[?257], Tuple[], f[T = ?257]() -> int,
\* ?258: Callable[[?259], int] of level 1, its trait, Tuple[?259], ?259 of
\* level 1, Tuple[?257, int], an open Union[List[?257]].
GraphLevels ==
  <<Var(0, 0), Var(1, 1), RecordType("int", <<>>, <<>>), ClassType("List", <<2>>),
    RecordType("Tuple.N0", <<>>, <<>>), FuncType("f", <<5, 3>>, <<2>>, 0),
    VarT(2, 1, 8), CallableTrait(<<9, 3>>), Tuple1(10), Var(3, 1), Tuple2(2, 3),
    UnionType(<<4>>, FALSE)>>

InitLevels ==
  /\ heap = MkHeap(GraphLevels)
  /\ roots = 1..Len(GraphLevels)
  /\ undo = EmptyUndo
  /\ pc = "idle"
  /\ op = NoOp
  /\ pre = MkHeap(GraphLevels)
  /\ created = IdsOf(GraphLevels, 1)
  /\ unboundCount = UnboundCountInit + Len(IdsOf(GraphLevels, 1))
  /\ calls = 0
  /\ EngineIdle

SpecLevels == InitLevels /\ [][Next]_vars

\* ------------------------------------------- generalize and instantiate
\* Number of calls the caller of generalize and instantiate makes.
MaxGenCalls == 3

\* A generic function and generic classes: T, U, Tuple[T,T],
\* foo[T](a: T, b: T) -> T, int, Dict[T,U], List[Dict[T,U]], and
\* N: Generic (static), Int[N].
GraphGenerics ==
  <<LinkType("Generic", UnboundCountInit, 0, 0, 0, 0),
    LinkType("Generic", UnboundCountInit + 1, 0, 0, 0, 0), Tuple2(1, 1),
    FuncType("foo", <<3, 1>>, <<1>>, 0), RecordType("int", <<>>, <<>>),
    ClassType("Dict", <<1, 2>>), ClassType("List", <<6>>),
    LinkType("Generic", UnboundCountInit + 2, 0, 0, 1, 0), RecordType("Int", <<8>>, <<>>)>>

\* Types over variables of two scopes: ?256 (level 0), ?257 (level 1), ?258
\* (level l2), Tuple[?256,?257], Tuple[?257,?257], List[Tuple[?256,?257]], int,
\* Tuple[?257,?258], ?259 bound to ?257, List[?259], ?260: Trait[int] (level
\* 1), the trait, List[?260].
GraphScopes(l2) ==
  <<Var(0, 0), Var(1, 1), Var(2, l2), Tuple2(1, 2), Tuple2(2, 2), ClassType("List", <<4>>),
    RecordType("int", <<>>, <<>>), Tuple2(2, 3),
    LinkType("Link", UnboundCountInit + 3, 0, 2, 0, 0), ClassType("List", <<9>>),
    VarT(4, 1, 12), TypeTrait(7), ClassType("List", <<11>>)>>

\* Two callers of the partial call of a generic function: ?256:
\* Callable[[?257], ?258], ?257, ?258, the trait, Tuple[?257], the generic T,
\* Tuple[T], g[T](x: T) -> T, the partial g(...), ?260: Callable[[?261], ?262],
\* ?261, ?262, the trait, Tuple[?261], Dict[?258,?262], Tuple[?256,?260],
\* Tuple[g(...),g(...)].
GraphCallers ==
  <<VarT(0, 0, 4), Var(1, 0), Var(2, 0), CallableTrait(<<5, 3>>), Tuple1(2),
    LinkType("Generic", UnboundCountInit + 3, 0, 0, 0, 0), Tuple1(6),
    FuncType("g", <<7, 6>>, <<6>>, 0), PartialType("Partial.N", <<>>, <<>>, 8, <<FALSE>>),
    VarT(4, 0, 13), Var(5, 0), Var(6, 0), CallableTrait(<<14, 12>>), Tuple1(11),
    ClassType("Dict", <<3, 12>>), Tuple2(1, 10), Tuple2(9, 9)>>

\* The graphs, each with the types the caller holds.
GenGraphs ==
  {[nodes |-> GraphGenerics, roots |-> {4, 7, 9}],
   [nodes |-> GraphCallers, roots |-> {15, 16, 17}]}
    \cup {[nodes |-> GraphScopes(l), roots |-> {6, 8, 10, 13}] : l \in Levels}

InitGen ==
  \E g \in GenGraphs :
    /\ heap = MkHeap(g.nodes)
    /\ roots = g.roots
    /\ undo = EmptyUndo
    /\ pc = "idle"
    /\ op = NoOp
    /\ pre = MkHeap(g.nodes)
    /\ created = IdsOf(g.nodes, 1)
    /\ unboundCount = UnboundCountInit + Len(IdsOf(g.nodes, 1))
    /\ calls = 0
    /\ EngineIdle

GenIdle == pc = "idle" /\ calls < MaxGenCalls

\* ctx->instantiate(type) at level atLevel: a cache of its own and the
\* program's counter,
\*   std::unordered_map<int, TypePtr> cache;
\*   type->instantiate(atLevel, &(cache->unboundCount), &cache)
InstantiateCall(x, atLevel) ==
  /\ GenIdle
  /\ \E r \in {Instantiate([Run(heap, EmptyUndo, created) EXCEPT !.cnt = unboundCount],
                            x, atLevel, TRUE)} :
      /\ ~r.oom
      /\ heap' = r.h
      /\ roots' = roots \cup {r.res}
      /\ unboundCount' = r.cnt
      /\ created' = r.created
      /\ pre' = heap
      /\ op' = [NoOp EXCEPT !.name = "instantiate", !.a = x, !.b = atLevel, !.ret = r.res]
      /\ pc' = "done"
      /\ calls' = calls + 1
      /\ UNCHANGED <<undo, engine>>

\* typ->generalize(atLevel)
GeneralizeCall(x, atLevel) ==
  /\ GenIdle
  /\ \E r \in {Generalize(Run(heap, EmptyUndo, created), x, atLevel)} :
      /\ ~r.oom
      /\ heap' = r.h
      /\ roots' = roots \cup {r.res}
      /\ pre' = heap
      /\ op' = [NoOp EXCEPT !.name = "generalize", !.a = x, !.b = atLevel, !.ret = r.res]
      /\ pc' = "done"
      /\ calls' = calls + 1
      /\ UNCHANGED <<undo, unboundCount, created, engine>>

\* The types the caller holds of values that hold a partial call.
PartialCalls ==
  {x \in Types : \E y \in ReachFrom(heap, {x}, {}, "walk") : heap[y].k = "partial"}

NextGen ==
  \/ \E x \in Types, atLevel \in Levels : InstantiateCall(x, atLevel)
  \/ \E x \in Types, atLevel \in Levels : GeneralizeCall(x, atLevel)
  \/ \E a \in Types, b \in PartialCalls : Probe(a, b)
  \/ Return

SpecGen == InitGen /\ [][NextGen]_vars

\* ------------------------------------------------------------ realization
\* Number of realize calls the type checker makes from the top level.
MaxRealizeCalls == 2
\* Highest static argument a top-level call passes.
MaxStatic == 1

\* if (ctx->realizationDepth > 500)
MaxRealizationDepth == 500

\* A concrete type handed to realize: the object obj of kind k (func, class)
\* with the name of its function or class and its static argument n.
TypeObj(obj, k, name, n) == [obj |-> obj, k |-> k, name |-> name, n |-> n]

\* nullptr
Null == TypeObj(0, "null", "", 0)

\* FuncType::realizedName, ClassType::realizedTypeName: the name and the
\* realized arguments; the object's identity is no part of it.
RealizedNameOf(t) == <<t.name, t.n>>

\* The functions of the program and the callees their bodies realize, in the
\* order type-checking the body meets them: leaf calls nothing, fact calls
\* itself, even and odd call each other, pair calls leaf twice, count[N] calls
\* count[N + 1], wrap calls mk.
FuncNames == {"leaf", "fact", "even", "odd", "pair", "count", "mk", "wrap"}

Callees(t) ==
  CASE t.name = "fact" -> <<[name |-> "fact", n |-> t.n]>>
    [] t.name = "even" -> <<[name |-> "odd", n |-> t.n]>>
    [] t.name = "odd" -> <<[name |-> "even", n |-> t.n]>>
    [] t.name = "pair" -> <<[name |-> "leaf", n |-> t.n], [name |-> "leaf", n |-> t.n]>>
    [] t.name = "count" -> <<[name |-> "count", n |-> t.n + 1]>>
    [] t.name = "wrap" -> <<[name |-> "mk", n |-> t.n]>>
    [] OTHER -> <<>>

\* The classes of the program and the types of their fields: Node has a field
\* of its own type, a field of Fwd has no type yet (the class is still being
\* created), Holder has a field of type Fwd.
ClassNames == {"int", "Node", "Fwd", "Holder"}

Fields(name) ==
  CASE name = "Node" -> <<"Node", "int">>
    [] name = "Fwd" -> <<"">>
    [] name = "Holder" -> <<"Fwd">>
    [] OTHER -> <<>>

\* realizations.find(realizedName): the place of the record, 0 for end().
Find(tab, key) ==
  IF \E i \in 1..Len(tab) : tab[i].key = key
  THEN CHOOSE i \in 1..Len(tab) : tab[i].key = key
  ELSE 0

\* A table that takes a second record for a key it holds.
PutAgain(tab, key, r) == Append(tab, [key |-> key, type |-> r])

\* realizations[key] = r
Put(tab, key, r) ==
  IF Find(tab, key) # 0 THEN [tab EXCEPT ![Find(tab, key)] = [key |-> key, type |-> r]]
  ELSE Append(tab, [key |-> key, type |-> r])

\* A realizeFunc that leaves the table as it is before the body.
PopulateLater(tab, t) == tab

\* Need to populate realization table in advance to make recursive functions
\* work: realizations[type->realizedName()] = r; r->type = type->getFunc().
Populate(tab, t) == Put(tab, RealizedNameOf(t), t)

\* type->getRetType(): mk returns a Holder, every other function an int.
RetType(name) == IF name = "mk" THEN "Holder" ELSE "int"

\* A handler that adds no frame.
TrackNothing(messages, msg) == messages

\* ParserException::trackRealize: messages.push_back("while realizing " + msg)
TrackRealize(messages, msg) == Append(messages, msg)

\* The state realizeType works on: the class table, the number of type objects
\* made, ret the realized type or Null, exc whether a ParserException is in
\* flight and the messages it carries; nest lists the realizeType calls that
\* are active, innermost first, and active what nest was when the exception
\* was raised.
TypeRun(classes, objs) ==
  [classes |-> classes, objs |-> objs, ret |-> Null, exc |-> FALSE,
   messages |-> <<>>, nest |-> <<>>, active |-> <<>>]

\* A class none of whose fields lacks a type.
IncompleteNever(name) == FALSE

\* We are still not done with type creation: for (auto &m : fields)
\* if (!m.type) return nullptr;
Incomplete(name) == \E i \in 1..Len(Fields(name)) : Fields(name)[i] = ""

RECURSIVE RealizeType(_, _), RealizeFields(_, _, _)
\* TypecheckVisitor::realizeType on a TypeRun s: the try block returns the
\* record found or makes one and realizes the fields; the handler adds the
\* frame of this call to the exception and throws it on.
RealizeType(s, t) ==
  IF s.exc THEN s
  ELSE IF Incomplete(t.name) THEN [s EXCEPT !.ret = Null]
  ELSE With(IF Find(s.classes, RealizedNameOf(t)) # 0
            THEN [s EXCEPT !.ret = s.classes[Find(s.classes, RealizedNameOf(t))].type]
            ELSE RealizeFields([s EXCEPT !.classes = Put(@, RealizedNameOf(t), t),
                                         !.nest = <<RealizedNameOf(t)>> \o @], t, 1),
            LAMBDA r :
              IF r.exc THEN [r EXCEPT !.messages = TrackRealize(@, RealizedNameOf(t))]
              ELSE [r EXCEPT !.nest = s.nest])

\* for (auto &m : fields) { mt = ctx->instantiate(m.type, realizedType);
\*   tf = realize(mt); if (!tf) error("cannot realize ..."); }
RealizeFields(s, t, i) ==
  IF i > Len(Fields(t.name)) THEN [s EXCEPT !.ret = t]
  ELSE With(RealizeType([s EXCEPT !.objs = @ + 1],
                        TypeObj(s.objs + 1, "class", Fields(t.name)[i], 0)), LAMBDA r :
         IF r.exc THEN r
         ELSE IF r.ret = Null THEN [r EXCEPT !.exc = TRUE, !.active = r.nest]
         ELSE RealizeFields(r, t, i + 1))

\* The engine at rest: pc is idle, call (a realize request is pending), body
\* (the body of the innermost realization is being type-checked), returned or
\* error; objs counts the type objects made, canRealize is typ->canRealize()
\* of the top-level call's argument, messages is the trace of the exception
\* in flight (pc raised) or delivered (pc error), active the realizations that
\* were active when it was raised, innermost first, unwound the number of
\* realizeFunc calls it has left through their handler, request is the type realizeFunc
\* is asked for, arg is the argument of the top-level call, ret what the last
\* realizeFunc or top-level call returned, results lists the results of the
\* top-level calls and inferred the types whose body inferTypes was run on.
RealizeRun ==
  [pc |-> "idle", calls |-> 0, objs |-> 0, request |-> Null, arg |-> Null,
   ret |-> Null, results |-> <<>>, inferred |-> <<>>, canRealize |-> TRUE,
   messages |-> <<>>, active |-> <<>>, unwound |-> 0]

InitRealize ==
  /\ heap = MkHeap(<<>>)
  /\ roots = {}
  /\ undo = EmptyUndo
  /\ pc = "idle"
  /\ op = NoOp
  /\ pre = MkHeap(<<>>)
  /\ created = <<>>
  /\ unboundCount = UnboundCountInit
  /\ calls = 0
  /\ cache = NoCache
  /\ ctx = NoCtx
  /\ suite = <<>>
  /\ run = RealizeRun

\* The top-level call is over: control is back in the caller.
Returned(r, t) ==
  [r EXCEPT !.pc = "returned", !.request = Null, !.ret = t,
            !.results = Append(@, [name |-> RealizedNameOf(r.arg), type |-> t])]

\* realizeFunc has returned t to the realize that called it: to the body of
\* the innermost realization in progress, or to the top-level caller.
Back(r, bases, t) ==
  IF Len(bases) > 0 THEN [r EXCEPT !.pc = "body", !.request = Null, !.ret = t]
  ELSE Returned(r, t)

\* TypecheckVisitor::realize(typ) from the top level, typ a function type:
\*   if (!typ || !typ->canRealize()) return nullptr;
\*   else if (auto f = typ->getFunc()) { auto ret = realizeFunc(f.get()); ...
RealizeCall(name, n, canRealize) ==
  /\ run.pc \in {"idle", "returned"}
  /\ run.calls < MaxRealizeCalls
  /\ \E t \in {TypeObj(run.objs + 1, "func", name, n)} :
       run' = IF canRealize
              THEN [run EXCEPT !.pc = "call", !.calls = @ + 1, !.objs = @ + 1,
                               !.request = t, !.arg = t, !.ret = Null,
                               !.canRealize = TRUE]
              ELSE Returned([run EXCEPT !.calls = @ + 1, !.objs = @ + 1, !.arg = t,
                                        !.canRealize = FALSE], Null)
  /\ UNCHANGED <<graph, cache, ctx, suite>>

\* TypecheckVisitor::realize(typ) from the top level, typ a class type:
\*   else if (auto c = typ->getClass()) { auto t = realizeType(c.get()); ...
\*     if (t) return unify(t, typ); } return nullptr;
RealizeClassCall(name) ==
  /\ run.pc \in {"idle", "returned"}
  /\ run.calls < MaxRealizeCalls
  /\ \E t \in {TypeObj(run.objs + 1, "class", name, 0)} :
       \E r \in {RealizeType(TypeRun(cache.classes, run.objs + 1), t)} :
         /\ cache' = [cache EXCEPT !.classes = r.classes]
         /\ run' = IF r.exc
                   THEN [run EXCEPT !.pc = "error", !.calls = @ + 1, !.objs = r.objs,
                                    !.arg = t, !.canRealize = TRUE,
                                    !.messages = r.messages, !.active = r.active]
                   ELSE Returned([run EXCEPT !.calls = @ + 1, !.objs = r.objs, !.arg = t,
                                             !.canRealize = TRUE], r.ret)
  /\ UNCHANGED <<graph, ctx, suite>>

\* The realizeFunc calls that have pushed their base, innermost first.
ActiveFuncs(bases) ==
  [i \in 1..Len(bases) |-> RealizedNameOf(bases[Len(bases) + 1 - i].type)]

\* TypecheckVisitor::realizeFunc(type), up to realized = inferTypes(suite):
\* the cached realization is returned; past the depth cap the compilation
\* error is raised; else the depth is raised, a base is pushed, the record is
\* put in the table and the body is entered: inferTypes adds its own block
\* and raises the level for its pass over the body.
RealizeFunc ==
  /\ run.pc = "call"
  /\ \E t \in {run.request} :
       IF Find(cache.functions, RealizedNameOf(t)) # 0 THEN
         /\ run' = Back(run, ctx.bases,
                        cache.functions[Find(cache.functions, RealizedNameOf(t))].type)
         /\ UNCHANGED <<cache, ctx>>
       ELSE IF ctx.realizationDepth > MaxRealizationDepth THEN
         /\ run' = [run EXCEPT !.pc = "raised",
                               !.messages = TrackRealize(<<>>, RealizedNameOf(t)),
                               !.active = <<RealizedNameOf(t)>> \o ActiveFuncs(ctx.bases)]
         /\ UNCHANGED <<cache, ctx>>
       ELSE
         /\ ctx' = [ctx EXCEPT !.realizationDepth = @ + 1,
                               !.blocks = @ + 2,
                               !.typecheckLevel = @ + 2,
                               !.bases = Append(@, [name |-> t.name, type |-> t,
                                                    suite |-> Callees(t)])]
         /\ cache' = [cache EXCEPT !.functions = Populate(@, t)]
         /\ run' = [run EXCEPT !.pc = "body", !.request = Null,
                               !.inferred = Append(@, RealizedNameOf(t))]
  /\ UNCHANGED <<graph, suite>>

\* Type-checking the body meets its next call: the callee's type is
\* instantiated and realize is asked for it.
VisitCall ==
  /\ run.pc = "body"
  /\ Len(ctx.bases) > 0
  /\ Len(ctx.bases[Len(ctx.bases)].suite) > 0
  /\ \E c \in {Head(ctx.bases[Len(ctx.bases)].suite)} :
       run' = [run EXCEPT !.pc = "call", !.objs = @ + 1,
                          !.request = TypeObj(run.objs + 1, "func", c.name, c.n)]
  /\ ctx' = [ctx EXCEPT !.bases[Len(ctx.bases)].suite = Tail(@)]
  /\ UNCHANGED <<graph, cache, suite>>

\* The rest of realizeFunc once the body is type-checked, and of the realize
\* that called it: inferTypes lowers the level and pops its block, the return
\* type (int) is realized, the realization is
\* queued for translation, the base is popped, the depth lowered, and the
\* function's own type is realized as a class.
FinishFunc ==
  /\ run.pc = "body"
  /\ Len(ctx.bases) > 0
  /\ Len(ctx.bases[Len(ctx.bases)].suite) = 0
  /\ \E t \in {ctx.bases[Len(ctx.bases)].type} :
       \E r \in {RealizeType(TypeRun(cache.classes, run.objs + 1),
                             TypeObj(run.objs + 1, "class", RetType(t.name), 0))} :
         \E z \in {RealizeType(r, [t EXCEPT !.k = "class"])} :
           IF z.exc THEN
             /\ cache' = [cache EXCEPT !.classes = z.classes]
             /\ ctx' = [ctx EXCEPT !.blocks = @ - 1, !.typecheckLevel = @ - 1]
             /\ run' = [run EXCEPT !.pc = "raised", !.objs = z.objs,
                                   !.messages = z.messages,
                                   !.active = z.active \o ActiveFuncs(ctx.bases)]
           ELSE
             /\ cache' = [cache EXCEPT
                            !.classes = z.classes,
                            !.pendingRealizations = @ \cup {RealizedNameOf(t)},
                            !.functions = Put(@, RealizedNameOf(t), t)]
             /\ ctx' = [ctx EXCEPT !.realizationDepth = @ - 1,
                                   !.blocks = @ - 2,
                                   !.typecheckLevel = @ - 2,
                                   !.bases = SubSeq(@, 1, Len(@) - 1)]
             /\ run' = Back([run EXCEPT !.objs = z.objs],
                            SubSeq(ctx.bases, 1, Len(ctx.bases) - 1), t)
  /\ UNCHANGED <<graph, suite>>

\* catch (exc::ParserException &e) { e.trackRealize(...); throw; } of the
\* innermost realizeFunc the exception has not left yet. The handler restores
\* nothing: the bases stay pushed and the depth stays raised. Past the
\* outermost realizeFunc the exception is with the top-level caller.
Unwind ==
  /\ run.pc = "raised"
  /\ IF run.unwound < Len(ctx.bases)
     THEN run' = [run EXCEPT
                    !.messages = TrackRealize(@, ActiveFuncs(ctx.bases)[run.unwound + 1]),
                    !.unwound = @ + 1]
     ELSE run' = [run EXCEPT !.pc = "error"]
  /\ UNCHANGED <<graph, cache, ctx, suite>>

NextRealize ==
  \/ \E name \in FuncNames, n \in 0..MaxStatic, canRealize \in BOOLEAN :
       RealizeCall(name, n, canRealize)
  \/ \E name \in ClassNames : RealizeClassCall(name)
  \/ RealizeFunc
  \/ VisitCall
  \/ FinishFunc
  \/ Unwind

SpecRealize == InitRealize /\ [][NextRealize]_vars

\* ---------------------------------------------------------- type inference
\* cache.h declares the cap; inferTypes never reads it.
TYPECHECK_MAX_ITERATIONS == 100

\* The longest chain of calls in a statement under inference.
MaxChain == 100

\* An expression or statement of the tree under inference: its kind, its
\* children, expr->type (0 is nullptr), expr->done, and how many times a
\* visitor ran on it.  ref is what the visitor looks up: the class of a
\* literal (ctx->findInternal), the type of the variable an identifier names
\* (ctx->find), the return type of the function a call calls, the type of
\* the member a member access names (ctx->findMember).
Node(k, kids, ref) ==
  [k |-> k, kids |-> kids, ref |-> ref, type |-> 0, done |-> FALSE, visits |-> 0]

\* realize(typ) != nullptr: if (!typ || !typ->canRealize()) return nullptr;
Realizable(h, t) == t # 0 /\ CanRealize(h, t)

\* TypecheckVisitor::unify(a, b) in a pass p over the tree: res is the a it
\* returns; error("cannot unify") leaves the pass as an exception.
UnifyTypes(p, a, b) ==
  IF Stop(p.s) THEN p
  ELSE IF a = 0 THEN [p EXCEPT !.res = b]
  ELSE With(Unify([p.s EXCEPT !.undo = EmptyUndo], a, b, TRUE), LAMBDA r :
         IF Stop(r) \/ r.ret >= 0 THEN [p EXCEPT !.s = r, !.res = a]
         ELSE [p EXCEPT !.s = [Unify(Undone(r), a, b, TRUE) EXCEPT !.exc = TRUE]])

\* unify(expr->type, b) for the node i
UnifyExpr(p, i, b) ==
  With(UnifyTypes(p, p.ast[i].type, b), LAMBDA q :
    IF Stop(q.s) THEN q ELSE [q EXCEPT !.ast[i].type = q.res])

\* a->done && b->done && ...
AllDone(ast, kids) == \A j \in 1..Len(kids) : ast[kids[j]].done

\* if (!expr->done) { ... expr->accept(v); ... }
Pending(n) == ~n.done

\* if (expr->done) ctx->changedNodes++;  at the end of a visit
Counted(q, i) ==
  IF Stop(q.s) THEN q
  ELSE [q EXCEPT !.changedNodes = IF q.ast[i].done THEN @ + 1 ELSE @]

RECURSIVE Transform(_, _), TransformEach(_, _, _, _), Visit(_, _), VisitIf(_, _),
          TransformDot(_, _), CallMember(_, _), TransformCall(_, _), VisitSuite(_, _)

\* x = transform(x) for each x of kids[lo..hi], in order (the first half,
\* then the second, so that a long suite is not a deep recursion).
TransformEach(p, kids, lo, hi) ==
  IF Stop(p.s) \/ lo > hi THEN p
  ELSE IF lo = hi THEN Transform(p, kids[lo])
  ELSE TransformEach(TransformEach(p, kids, lo, (lo + hi) \div 2), kids,
                     (lo + hi) \div 2 + 1, hi)

\* visit(IfExpr*) when the condition is not static: both branches are
\* transformed, unified with the expression, and transformed once more.
VisitIf(p, i) ==
  With(TransformEach(p, p.ast[i].kids, 1, Len(p.ast[i].kids)), LAMBDA q :
    With(UnifyExpr(q, i, q.ast[q.ast[i].kids[2]].type), LAMBDA r :
      With(UnifyExpr(r, i, r.ast[r.ast[i].kids[3]].type), LAMBDA t :
        With(TransformEach(t, t.ast[i].kids, 2, 3), LAMBDA w :
          [w EXCEPT !.ast[i].done = AllDone(w.ast, w.ast[i].kids)]))))

\* transformDot for o.g where g is a field of the class of o (the type of o
\* is a class in every input): the type of the field, and done when o is
\* done and that type can be realized.
TransformDot(p, i) ==
  With(Transform(p, p.ast[i].kids[1]), LAMBDA q :
    With(UnifyExpr(q, i, q.ast[i].ref), LAMBDA r :
      [r EXCEPT !.ast[i].done = r.ast[r.ast[i].kids[1]].done
                                  /\ Realizable(r.s.h, r.ast[i].type)]))

\* transformCall for o.g(arg), g a field that holds a function.  The
\* argument is transformed; callTransformCallee hands the callee to
\* transformDot itself, whether or not it is done; wrapExpr unifies the
\* argument with the parameter; the argument is transformed again if its
\* type can be realized, and so is the callee if the function can.
CallMember(p, i) ==
  With(Transform(p, p.ast[i].kids[1]), LAMBDA q :
    With(IF Stop(q.s) THEN q
         ELSE TransformDot([q EXCEPT !.ast[q.ast[i].kids[2]].visits = @ + 1],
                           q.ast[i].kids[2]), LAMBDA c :
      With(IF Stop(c.s) THEN c
           ELSE UnifyTypes(c, c.ast[c.ast[i].kids[1]].type,
                           GetArgTypes(c.s.h, c.ast[c.ast[i].kids[2]].type)[1]), LAMBDA r :
        With(IF ~Stop(r.s) /\ Realizable(r.s.h, r.ast[r.ast[i].kids[1]].type)
             THEN Transform(r, r.ast[i].kids[1]) ELSE r, LAMBDA t :
          With(IF ~Stop(t.s) /\ Realizable(t.s.h, t.ast[t.ast[i].kids[2]].type)
               THEN Transform(t, t.ast[i].kids[2]) ELSE t, LAMBDA w :
            IF Stop(w.s) THEN w
            ELSE UnifyExpr([w EXCEPT !.ast[i].done = AllDone(w.ast, w.ast[i].kids)], i,
                           GetRetType(w.s.h, w.ast[w.ast[i].kids[2]].type)))))))

\* transformCall.  For f(arg) with def f(x): return x, the return type of f
\* is known once f is realized, and f can be realized once the type of arg
\* can: realize(calleeFn) then binds the return type to it.
TransformCall(p, i) ==
  IF Len(p.ast[i].kids) = 2 THEN CallMember(p, i)
  ELSE
  With(Transform(p, p.ast[i].kids[1]), LAMBDA q :
    With(UnifyExpr(q, i, q.ast[i].ref), LAMBDA r :
      IF Stop(r.s) \/ ~Realizable(r.s.h, r.ast[r.ast[i].kids[1]].type)
      THEN [r EXCEPT !.ast[i].done = FALSE]
      ELSE With(Transform(r, r.ast[i].kids[1]), LAMBDA t :
             With(UnifyTypes(t, t.ast[i].ref, t.ast[t.ast[i].kids[1]].type), LAMBDA w :
               [w EXCEPT !.ast[i].done = w.ast[w.ast[i].kids[1]].done]))))

\* visit(SuiteStmt*): every statement is transformed; the suite is done
\* when all of them are.
VisitSuite(p, i) ==
  With(TransformEach(p, p.ast[i].kids, 1, Len(p.ast[i].kids)), LAMBDA q :
    [q EXCEPT !.ast[i].done = AllDone(q.ast, q.ast[i].kids)])

\* expr->accept(v):  visit(IntExpr*), visit(BoolExpr*), visit(IdExpr*),
\* visit(IfExpr*), visit(DotExpr*), visit(CallExpr*), visit(SuiteStmt*)
Visit(p, i) ==
  IF p.ast[i].k = "lit" THEN
    With(UnifyExpr(p, i, p.ast[i].ref), LAMBDA q : [q EXCEPT !.ast[i].done = TRUE])
  ELSE IF p.ast[i].k = "id" THEN
    With(UnifyExpr(p, i, p.ast[i].ref), LAMBDA q :
      [q EXCEPT !.ast[i].done = Realizable(q.s.h, q.ast[i].type)])
  ELSE IF p.ast[i].k = "if" THEN VisitIf(p, i)
  ELSE IF p.ast[i].k = "dot" THEN TransformDot(p, i)
  ELSE IF p.ast[i].k = "call" THEN TransformCall(p, i)
  ELSE VisitSuite(p, i)

\* TypecheckVisitor::transform(expr).  After the visit typ and expr->type are
\* the same node, and realize(typ) returns a type equal to typ, so that
\* unify(typ, expr->type) and unify(typ, rt) bind nothing.
Transform(p, i) ==
  IF Stop(p.s) \/ i = 0 THEN p
  ELSE IF Pending(p.ast[i]) THEN Counted(Visit([p EXCEPT !.ast[i].visits = @ + 1], i), i)
  ELSE p

\* The types of an input are int (1), bool (2), then its variables.
\* x1 = f(x2); x2 = f(x3); ...; xn = f(x'); x' if True else 0
\* for def f(x): return x, where x' is the last variable: the if-expression
\* gives it its type, and each pass after that types one more call.
Chain(n) ==
  [nodes |-> <<ClassType("int", <<>>), ClassType("bool", <<>>)>>
               \o [k \in 1..(n + 1) |-> Var(k, 0)],
   ast |-> [j \in 1..(2 * n + 5) |->
              IF j <= 2 * n THEN
                (IF j % 2 = 1 THEN Node("id", <<>>, 3 + (j + 1) \div 2)
                 ELSE Node("call", <<j - 1>>, 2 + j \div 2))
              ELSE IF j = 2 * n + 1 THEN Node("lit", <<>>, 2)
              ELSE IF j = 2 * n + 2 THEN Node("id", <<>>, 3 + n)
              ELSE IF j = 2 * n + 3 THEN Node("lit", <<>>, 1)
              ELSE IF j = 2 * n + 4 THEN Node("if", <<2 * n + 1, 2 * n + 2, 2 * n + 3>>, 0)
              ELSE Node("suite", [k \in 1..(n + 1) |-> IF k <= n THEN 2 * k ELSE 2 * n + 4], 0)],
   pendingDefaults |-> <<>>]

\* o.g(f(x)); x if True else 0
\* where o is of class A, g is a field of A that holds a function from int to
\* int, and def f(x): return x.
MemberCall ==
  [nodes |-> <<ClassType("int", <<>>), ClassType("bool", <<>>), Var(1, 0), Var(2, 0),
               ClassType("A", <<>>), Tuple1(1), FuncType("g", <<6, 1>>, <<>>, 0)>>,
   ast |-> <<Node("id", <<>>, 3), Node("call", <<1>>, 4), Node("id", <<>>, 5),
             Node("dot", <<3>>, 7), Node("call", <<2, 4>>, 0),
             Node("lit", <<>>, 2), Node("id", <<>>, 3), Node("lit", <<>>, 1),
             Node("if", <<6, 7, 8>>, 0), Node("suite", <<5, 9>>, 0)>>,
   pendingDefaults |-> <<>>]

\* Statements over two variables x (3) and y (4), y static in the inputs
\* whose default cannot be applied:
\*   x                      with the default int for the type of x
\*   y                      with the default int for the static type of y
\*   y; x                   with both defaults
\*   x = f(x)
\*   x if True else 0; y = f(y)   with the default int for the type of x
\*   0 if True else False
InferInputs ==
  {Chain(n) : n \in {0, 1, 2, MaxChain}} \cup {MemberCall} \cup
  {[nodes |-> <<ClassType("int", <<>>), ClassType("bool", <<>>), Var(1, 0), y>>,
    ast |-> in.ast, pendingDefaults |-> in.pendingDefaults] :
     y \in {Var(2, 0), VarS(2, 0)},
     in \in {[ast |-> <<Node("id", <<>>, 3), Node("suite", <<1>>, 0)>>,
              pendingDefaults |-> <<[unbound |-> 3, defaultType |-> 1]>>],
             [ast |-> <<Node("id", <<>>, 4), Node("suite", <<1>>, 0)>>,
              pendingDefaults |-> <<[unbound |-> 4, defaultType |-> 1]>>],
             [ast |-> <<Node("id", <<>>, 4), Node("id", <<>>, 3), Node("suite", <<1, 2>>, 0)>>,
              pendingDefaults |-> <<[unbound |-> 4, defaultType |-> 1],
                                    [unbound |-> 3, defaultType |-> 1]>>],
             [ast |-> <<Node("id", <<>>, 3), Node("call", <<1>>, 3), Node("suite", <<2>>, 0)>>,
              pendingDefaults |-> <<>>],
             [ast |-> <<Node("lit", <<>>, 2), Node("id", <<>>, 3),
                        Node("lit", <<>>, 1), Node("if", <<1, 2, 3>>, 0),
                        Node("id", <<>>, 4), Node("call", <<5>>, 4),
                        Node("suite", <<4, 6>>, 0)>>,
              pendingDefaults |-> <<[unbound |-> 3, defaultType |-> 1]>>],
             [ast |-> <<Node("lit", <<>>, 2), Node("lit", <<>>, 1),
                        Node("lit", <<>>, 2), Node("if", <<1, 2, 3>>, 0),
                        Node("suite", <<4>>, 0)>>,
              pendingDefaults |-> <<>>]}}

\* inferTypes(result) is called on the last node of the tree.  run holds where
\* the loop is (pc), the iteration, the changedNodes of the last pass, the
\* nodes that were done before it, and what unify returned for each pending
\* default tried after it.
InitInfer ==
  \E in \in InferInputs :
    /\ heap = [x \in 1..Len(in.nodes) |-> in.nodes[x]]
    /\ roots = 1..Len(in.nodes)
    /\ undo = EmptyUndo
    /\ pc = "idle"
    /\ op = NoOp
    /\ pre = [x \in 1..Len(in.nodes) |-> in.nodes[x]]
    /\ created = IdsOf(in.nodes, 1)
    /\ unboundCount = UnboundCountInit + Len(IdsOf(in.nodes, 1))
    /\ calls = 0
    /\ cache = NoCache
    /\ ctx = [NoCtx EXCEPT !.pendingDefaults = in.pendingDefaults]
    /\ suite = in.ast
    /\ run = [pc |-> "loop", iteration |-> 0, result |-> Len(in.ast),
              changedNodes |-> 0, before |-> {}, rets |-> <<>>]

\* ctx->typecheckLevel++; changedNodes = 0; transform(result); swap;
\* ctx->typecheckLevel--: one pass of the visitor over the tree.  No function
\* is marked @force_realize.
TransformPass ==
  /\ run.pc = "loop"
  /\ \E p \in {Transform([s |-> [Run(heap, EmptyUndo, created) EXCEPT !.realizator = TRUE],
                          ast |-> suite, changedNodes |-> 0, res |-> 0], run.result)} :
       /\ heap' = p.s.h
       /\ created' = p.s.created
       /\ suite' = p.ast
       /\ run' = [run EXCEPT !.pc = After(p.s, "passed"),
                             !.iteration = @ + 1,
                             !.changedNodes = p.changedNodes,
                             !.before = {i \in 1..Len(suite) : suite[i].done},
                             !.rets = <<>>]
       /\ UNCHANGED <<roots, undo, pc, op, pre, unboundCount, calls, cache, ctx>>

\* A loop that goes on whether or not a node was marked done.
ContinuesAlways(changedNodes) == TRUE

\* else if (changedNodes) continue;
Continues(changedNodes) == changedNodes # 0

\* A round of defaults that counts every default as applied.
AppliedAlways(ret) == TRUE

\* if (u->unify(u->defaultType.get(), &undo) >= 0) anotherRound = true;
Applied(ret) == ret >= 0

RECURSIVE ApplyDefaults(_, _, _)
\* for (auto &unbound : ctx->pendingDefaults) if (auto u = unbound->getLink())
\*   { Unification undo; u->unify(u->defaultType.get(), &undo) ... }
\* d.s is the running state and d.rets what the calls of unify returned.
ApplyDefaults(d, pd, j) ==
  IF j > Len(pd) \/ Stop(d.s) THEN d
  ELSE IF d.s.h[pd[j].unbound].k # "link" THEN ApplyDefaults(d, pd, j + 1)
  ELSE With(Unify([d.s EXCEPT !.undo = EmptyUndo], pd[j].unbound, pd[j].defaultType, TRUE),
         LAMBDA r : ApplyDefaults([s |-> r, rets |-> Append(d.rets, r.ret)], pd, j + 1))

\* The end of an iteration: break when the statement is done, continue when
\* a node was marked done, otherwise try the pending defaults, clear them,
\* and continue if one was applied; error("cannot typecheck the program")
\* if nothing helps.
Decide ==
  /\ run.pc = "passed"
  /\ IF suite[run.result].done THEN
       /\ run' = [run EXCEPT !.pc = "returned"]
       /\ UNCHANGED <<graph, cache, ctx, suite>>
     ELSE IF Continues(run.changedNodes) THEN
       /\ run' = [run EXCEPT !.pc = "loop"]
       /\ UNCHANGED <<graph, cache, ctx, suite>>
     ELSE
       \E d \in {ApplyDefaults([s |-> [Run(heap, EmptyUndo, created) EXCEPT !.realizator = TRUE],
                                rets |-> <<>>], ctx.pendingDefaults, 1)} :
         /\ heap' = d.s.h
         /\ created' = d.s.created
         /\ ctx' = [ctx EXCEPT !.pendingDefaults = <<>>]
         /\ run' = [run EXCEPT !.rets = d.rets,
                               !.pc = IF \E j \in 1..Len(d.rets) : Applied(d.rets[j])
                                      THEN After(d.s, "loop") ELSE After(d.s, "error")]
         /\ UNCHANGED <<roots, undo, pc, op, pre, unboundCount, calls, cache, suite>>

NextInfer ==
  \/ TransformPass
  \/ Decide

SpecInfer == InitInfer /\ [][NextInfer]_vars

\* ------------------------------------------------------------ generic calls
\* The number of call sites and realization requests of a run.
MaxCallSites == 2

\* The template of a generic function as the cache holds it,
\*   def foo[T = int](y = 0): y; T
\* as a tree: the default of y (1), the default of T (2), and the body (5)
\* with its two expressions.  genericDeflt is the node of the default of T,
\* 0 for def foo[T](y = 0).  No node has a type and none is done.
FooTemplate(genericDeflt) ==
  [ast |-> <<Node("lit", <<>>, 1), Node("id", <<>>, 1), Node("id", <<>>, 1),
             Node("id", <<>>, 0), Node("suite", <<3, 4>>, 0)>>,
   argDeflt |-> 1, genericDeflt |-> genericDeflt, generic |-> 4, body |-> 5]

\* A TypecheckVisitor over the tree ast.
Visitor(h, cr, ast) ==
  [s |-> [Run(h, EmptyUndo, cr) EXCEPT !.realizator = TRUE],
   ast |-> ast, changedNodes |-> 0, res |-> 0]

\* functions[name].ast->clone(): a copy of the tree that shares no node with
\* it; addFunctionGenerics binds the name of the generic to its realized type.
ClonedAst(fn, ast, generic) == [ast EXCEPT ![fn.generic].ref = generic]

\* realize(calleeFn) for foo[generic]: the realization found in the table, or
\* the body of a clone of the template type-checked and put in the table.
\* c = [functions, work]: the table and the tree type-checked last.
RealizeTemplate(c, fn, ast, generic) ==
  IF Find(c.functions, <<"foo", generic>>) # 0 THEN c
  ELSE With(Transform(Visitor(heap, created, ClonedAst(fn, ast, generic)), fn.body),
         LAMBDA p : [functions |-> Put(c.functions, <<"foo", generic>>,
                                       TypeObj(Len(c.functions) + 1, "func", "foo", generic)),
                     work |-> p.ast])

InitCall ==
  \E genericDeflt \in {0, 2} :
    /\ heap = MkHeap(<<ClassType("int", <<>>), ClassType("bool", <<>>), Var(0, 0)>>)
    /\ roots = {1, 2, 3}
    /\ undo = EmptyUndo
    /\ pc = "idle"
    /\ op = NoOp
    /\ pre = heap
    /\ created = <<UnboundCountInit>>
    /\ unboundCount = UnboundCountInit + 1
    /\ calls = 0
    /\ cache = NoCache
    /\ ctx = NoCtx
    /\ suite = FooTemplate(genericDeflt).ast
    /\ run = [pc |-> "idle", fn |-> FooTemplate(genericDeflt),
              pristine |-> FooTemplate(genericDeflt).ast, log |-> <<>>, work |-> <<>>,
              ret |-> "none"]

\* TypecheckVisitor::transformCall on a call of foo that gives y or not and
\* the generic T (1 for int, 2 for bool) or not (0):
\*   callReorderArguments: a parameter that is not given gets
\*     transform(clone(calleeFn->ast->args[si].deflt));
\*   a generic that is still unbound and has a default gets
\*     transform(calleeFn->ast->args[i].deflt, true), unified with it;
\*   realize(calleeFn), unless the generic is still unbound.
CallSite(withY, withT) ==
  /\ run.pc = "idle"
  /\ Len(run.log) < MaxCallSites
  /\ \E a \in {IF withY THEN Visitor(heap, created, suite)
                ELSE Transform(Visitor(heap, created, suite), run.fn.argDeflt)} :
       \E d \in {IF withT = 0 /\ run.fn.genericDeflt # 0
                  THEN Transform(Visitor(heap, created, suite), run.fn.genericDeflt)
                  ELSE Visitor(heap, created, suite)} :
         \E generic \in {IF withT # 0 THEN withT
                          ELSE IF run.fn.genericDeflt # 0
                            THEN d.ast[run.fn.genericDeflt].type ELSE 0} :
           \E c \in {IF generic = 0 THEN [functions |-> cache.functions, work |-> a.ast]
                      ELSE RealizeTemplate([functions |-> cache.functions, work |-> a.ast],
                                           run.fn, d.ast, generic)} :
             /\ suite' = d.ast
             /\ cache' = [cache EXCEPT !.functions = c.functions]
             /\ run' = [run EXCEPT !.work = c.work, !.ret = "call",
                                   !.log = Append(@, <<"call", withY, withT>>)]
  /\ UNCHANGED <<graph, ctx>>

\* The unifications of Cache::realizeFunction for foo, whose return type,
\* parameter type and generic are the one variable t of the instantiated type:
\*   if (type->getRetType()->unify(args[0].get(), &undo) < 0)
\*     { undo.undo(); return nullptr; }
\*   for each argument: undo = Unification(); if (... < 0) { undo.undo(); ... }
\*   for each generic:  undo = Unification(); if (... < 0) { undo.undo(); ... }
\* generic is 0 for an empty list of generics.  ret is -1 where nullptr is
\* returned.
UnifyArgs(s, t, ret, y, generic) ==
  With(Unify([s EXCEPT !.undo = EmptyUndo], t, ret, TRUE), LAMBDA r1 :
    IF Stop(r1) THEN r1
    ELSE IF r1.ret < 0 THEN [Undone(r1) EXCEPT !.ret = -1]
    ELSE With(Unify([r1 EXCEPT !.undo = EmptyUndo], t, y, TRUE), LAMBDA r2 :
      IF Stop(r2) THEN r2
      ELSE IF r2.ret < 0 THEN [Undone(r2) EXCEPT !.ret = -1]
      ELSE IF generic = 0 THEN r2
      ELSE With(Unify([r2 EXCEPT !.undo = EmptyUndo], t, generic, TRUE), LAMBDA r3 :
        IF Stop(r3) THEN r3
        ELSE IF r3.ret < 0 THEN [Undone(r3) EXCEPT !.ret = -1]
        ELSE r3)))

\* Cache::realizeFunction(type, args, generics) for foo: the type is
\* instantiated (a fresh variable t), the return type, the argument and the
\* generic are unified with what the caller gives, and tv.realize(type) is
\* called.  The caller's types are int (1), bool (2) and its variable (3).
RealizeFunction(ret, y, generic) ==
  /\ run.pc = "idle"
  /\ Len(run.log) < MaxCallSites
  /\ ~Oom(heap)
  /\ \E t \in {Alloc(heap)} :
       \E r \in {UnifyArgs(New(Run(heap, EmptyUndo, created),
                                LinkType("Unbound", unboundCount, 0, 0, 0, 0)),
                            t, ret, y, generic)} :
         \E c \in {IF r.ret < 0 \/ ~CanRealize(r.h, t)
                    THEN [functions |-> cache.functions, work |-> run.work]
                    ELSE RealizeTemplate([functions |-> cache.functions, work |-> run.work],
                                         run.fn, suite, Follow(r.h, t))} :
           /\ heap' = r.h
           /\ pre' = heap
           /\ unboundCount' = unboundCount + 1
           /\ created' = Append(created, unboundCount)
           /\ cache' = [cache EXCEPT !.functions = c.functions]
           /\ run' = [run EXCEPT !.pc = After(r, "idle"),
                                 !.work = c.work,
                                 !.ret = IF r.ret < 0 THEN "unify"
                                         ELSE IF CanRealize(r.h, t) THEN "realized"
                                         ELSE "null",
                                 !.log = Append(@, <<"realize", ret, y, generic>>)]
  /\ UNCHANGED <<roots, undo, pc, op, calls, ctx, suite>>

NextCall ==
  \/ \E withY \in BOOLEAN, withT \in 0..2 : CallSite(withY, withT)
  \/ \E ret \in 1..3, y \in 1..3, generic \in 0..2 : RealizeFunction(ret, y, generic)

SpecCall == InitCall /\ [][NextCall]_vars

\* -------------------------------------------------------- partial calls
Tuple3(a, b, c) == RecordType("Tuple.N3", <<a, b, c>>, <<a, b, c>>)

\* int, float, the generics T and U, f[T](a: T, b: T, c: T) -> T and
\* g[T,U](a: T, b: U, c: T) -> U.
GraphPartial ==
  <<RecordType("int", <<>>, <<>>), RecordType("float", <<>>, <<>>),
    LinkType("Generic", UnboundCountInit, 0, 0, 0, 0),
    LinkType("Generic", UnboundCountInit + 1, 0, 0, 0, 0),
    Tuple3(3, 3, 3), FuncType("f", <<5, 3>>, <<3>>, 0),
    Tuple3(3, 4, 3), FuncType("g", <<7, 4>>, <<3, 4>>, 0)>>

\* ctx->find(name)->type: the type of the function called name.
FindFunc(name) ==
  CHOOSE x \in 1..Len(GraphPartial) : GraphPartial[x].k = "func" /\ GraphPartial[x].ast = name

\* The type of an expression whose class is name (a literal, or float(expr)).
TypeOfClass(h, name) ==
  CHOOSE x \in DOMAIN h : h[x].k = "record" /\ h[x].name = name /\ h[x].generics = <<>>

\* The expected classes for which an argument of unknown type is left for later.
Hints == {"Generator", "float", "Optional"}

\* TypecheckVisitor::unify(a, b, undoOnSuccess) that keeps the bindings of a
\* success whatever undoOnSuccess says.
UnifyAndKeep(p, a, b, undoOnSuccess) == UnifyTypes(p, a, b)

\* TypecheckVisitor::unify(a, b, undoOnSuccess): with undoOnSuccess the
\* bindings of a success are taken back as those of a failure are.
UnifyOrUndo(p, a, b, undoOnSuccess) ==
  IF ~undoOnSuccess THEN UnifyTypes(p, a, b)
  ELSE IF Stop(p.s) THEN p
  ELSE With(Unify([p.s EXCEPT !.undo = EmptyUndo], a, b, TRUE), LAMBDA r :
         IF Stop(r) THEN [p EXCEPT !.s = r]
         ELSE IF r.ret >= 0 THEN [p EXCEPT !.s = Undone(r), !.res = a]
         ELSE [p EXCEPT !.s = [Undone(r) EXCEPT !.exc = TRUE]])

\* TypecheckVisitor::wrapExpr(expr, expectedType, callee, undoOnSuccess): res is the type the
\* argument has afterwards. An int argument where a float is expected becomes
\* float(expr); the arguments are neither generators, optionals nor
\* functions.
WrapExpr(p, x, expectedType, undoOnSuccess) ==
  LET exprClass == GetClass(p.s.h, x)
      expectedClass == GetClass(p.s.h, expectedType)
  IN
    IF Stop(p.s) THEN p
    ELSE IF exprClass = 0 /\ expectedClass # 0 /\ p.s.h[expectedClass].name \in Hints
      THEN [p EXCEPT !.res = x]
    ELSE IF expectedClass # 0 /\ exprClass # 0 /\ p.s.h[expectedClass].name = "float"
            /\ p.s.h[exprClass].name = "int"
      THEN UnifyOrUndo(p, TypeOfClass(p.s.h, "float"), expectedType, undoOnSuccess)
    ELSE UnifyOrUndo(p, x, expectedType, undoOnSuccess)

\* transform(EllipsisExpr): res is a fresh Unbound variable.
Ellipsis(p) ==
  [p EXCEPT !.s = [New(p.s, LinkType("Unbound", p.s.cnt, 0, 0, 0, 0))
                     EXCEPT !.cnt = @ + 1, !.created = Append(@, p.s.cnt)],
            !.res = Alloc(p.s.h)]

RECURSIVE WrapArgs(_, _, _, _, _)
\* for (si...) wrapExpr(expr->args[si].value, calleeFn->args[si + 1], calleeFn):
\* args[si] is the type of the argument, 0 for an ellipsis; s.m is the types of
\* the arguments afterwards.
WrapArgs(p, calleeFn, args, si, acc) ==
  IF si > Len(args) \/ Stop(p.s) THEN [p EXCEPT !.s.m = acc]
  ELSE With(IF args[si] = 0 THEN Ellipsis(p) ELSE [p EXCEPT !.res = args[si]], LAMBDA e :
         With(WrapExpr(e, e.res, GetArgTypes(e.s.h, calleeFn)[si], FALSE), LAMBDA w :
           WrapArgs(w, calleeFn, args, si + 1, Append(acc, w.res))))

\* transform(IdExpr(name)) of a function, then the loop over the arguments:
\* res is the instance of the function the call site works on.
CallFunc(h, cr, uc, name, args) ==
  With(Instantiate([Visitor(h, cr, <<>>).s EXCEPT !.cnt = uc, !.cache = <<>>],
                   FindFunc(name), 0, TRUE), LAMBDA i :
    With(WrapArgs([Visitor(h, cr, <<>>) EXCEPT !.s = i], i.res, args, 1, <<>>), LAMBDA w :
      [w EXCEPT !.res = i.res]))

NoResult == [done |-> FALSE, ok |-> FALSE, fn |-> <<>>, ret |-> <<>>]

\* What a call resolves to: the realized function (none while it cannot be
\* realized) and the type of the call expression.
Resolved(p) ==
  IF p.s.exc THEN [NoResult EXCEPT !.done = TRUE]
  ELSE [done |-> TRUE, ok |-> TRUE,
        fn |-> IF CanRealize(p.s.h, p.res) THEN RealizedName(p.s.h, p.res) ELSE <<>>,
        ret |-> RealizedName(p.s.h, GetRetType(p.s.h, p.res))]

\* The arguments of the call that creates the partial: an ellipsis for each
\* parameter that is not bound.
KnownArgs(args, known) == [si \in 1..Len(args) |-> IF known[si] THEN args[si] ELSE 0]

RECURSIVE Select(_, _, _)
\* The elements of xs at the positions of mask.
Select(xs, mask, i) ==
  IF i > Len(xs) THEN <<>>
  ELSE (IF mask[i] THEN <<xs[i]>> ELSE <<>>) \o Select(xs, mask, i + 1)

RECURSIVE Reordered(_, _, _, _, _)
\* callReorderArguments: a slot the partial knows takes getPartialArg(pi++),
\* any other the argument given by name.
Reordered(stored, known, args, si, pi) ==
  IF si > Len(args) THEN <<>>
  ELSE IF known[si] THEN <<stored[pi]>> \o Reordered(stored, known, args, si + 1, pi + 1)
  ELSE <<args[si]>> \o Reordered(stored, known, args, si + 1, pi)

Masks == {m \in [1..3 -> BOOLEAN] : \E si \in 1..3 : ~m[si]}

\* A function of three parameters, an argument for each (int or float), and
\* the strict subset of the parameters the partial call binds.
InitPartial ==
  \E name \in {"f", "g"}, args \in [1..3 -> {"int", "float"}], known \in Masks :
    /\ heap = MkHeap(GraphPartial)
    /\ roots = {}
    /\ undo = EmptyUndo
    /\ pc = "idle"
    /\ op = NoOp
    /\ pre = heap
    /\ created = IdsOf(GraphPartial, 1)
    /\ unboundCount = UnboundCountInit + Len(IdsOf(GraphPartial, 1))
    /\ calls = 0
    /\ cache = NoCache
    /\ ctx = NoCtx
    /\ suite = <<>>
    /\ run = [pc |-> "idle", name |-> name,
              args |-> [si \in 1..3 |-> TypeOfClass(MkHeap(GraphPartial), args[si])],
              known |-> known, partial |-> 0, direct |-> NoResult, completed |-> NoResult]

Called(p) ==
  /\ heap' = p.s.h
  /\ created' = p.s.created
  /\ unboundCount' = p.s.cnt
  /\ UNCHANGED <<roots, undo, pc, op, pre, calls, cache, ctx, suite>>

\* f(a, b, c): the call with all arguments.
DirectCall ==
  /\ ~run.direct.done
  /\ \E p \in {CallFunc(heap, created, unboundCount, run.name, run.args)} :
       /\ Called(p)
       /\ run' = [run EXCEPT !.direct = Resolved(p)]

\* p = f(..., known arguments by name): the call that creates the partial. Its
\* type is Partial.N<known>[f] over the types of the arguments it holds.
PartialCall ==
  /\ run.pc = "idle"
  /\ \E p \in {CallFunc(heap, created, unboundCount, run.name, KnownArgs(run.args, run.known))} :
       IF p.s.exc
       THEN /\ Called(p)
            /\ run' = [run EXCEPT !.pc = "done", !.completed = Resolved(p)]
       ELSE \E q \in {New(p.s, PartialType("Partial.N", <<>>, Select(p.s.m, run.known, 1),
                                           p.res, run.known))} :
              /\ Called([p EXCEPT !.s = q])
              /\ run' = [run EXCEPT !.pc = "partial", !.partial = q.res]

\* p(remaining arguments): the callee is a partial, so the call site takes the
\* function by name again and passes the arguments the partial holds with the
\* ones given now.
CompleteCall ==
  /\ run.pc = "partial"
  /\ \E p \in {CallFunc(heap, created, unboundCount, heap[heap[run.partial].func].ast,
                        Reordered(heap[run.partial].args, heap[run.partial].known,
                                  run.args, 1, 1))} :
       /\ Called(p)
       /\ run' = [run EXCEPT !.pc = "done", !.completed = Resolved(p)]

NextPartial == DirectCall \/ PartialCall \/ CompleteCall
SpecPartial == InitPartial /\ [][NextPartial]_vars

\* ------------------------------------------------------ static evaluation
\* The number of passes of the visitor over a tree.
MaxPasses == 2

\* Expr::staticValue
NoStatic == [type |-> "none", evaluated |-> FALSE, value |-> 0]
StaticValue(v) == [type |-> "int", evaluated |-> TRUE, value |-> v]

\* A node of the tree with a static value: op is the operator of a binary
\* expression and value what a literal holds.
Expr(k, kids, ref) ==
  [k |-> k, kids |-> kids, ref |-> ref, op |-> "", value |-> 0, staticValue |-> NoStatic,
   type |-> 0, done |-> FALSE, visits |-> 0]

\* N<IntExpr>(v), N<BoolExpr>(b): a literal is static and evaluated.
IntExpr(v) == [Expr("int", <<>>, 0) EXCEPT !.value = v, !.staticValue = StaticValue(v)]
BoolExpr(b) ==
  [Expr("bool", <<>>, 0) EXCEPT !.value = IF b THEN 1 ELSE 0,
                                 !.staticValue = StaticValue(IF b THEN 1 ELSE 0)]
BinaryExpr(o, l, r) == [Expr("bin", <<l, r>>, 0) EXCEPT !.op = o]

\* staticOps[StaticValue::INT]
StaticOps == {"<", "<=", ">", ">=", "==", "!=", "&&", "||", "+", "-", "*", "//", "%"}
\* The operators whose value becomes a BoolExpr.
BoolOps == {"==", "!=", "<", "<=", ">", ">=", "&&", "||"}

Abs(v) == IF v < 0 THEN -v ELSE v
\* lvalue / rvalue and lvalue % rvalue on int64_t: the quotient is truncated
\* towards zero and the remainder has the sign of lvalue.
Quot(l, r) == (IF (l < 0) = (r < 0) THEN 1 ELSE -1) * (Abs(l) \div Abs(r))
Rem(l, r) == l - r * Quot(l, r)
Truth(b) == IF b THEN 1 ELSE 0

\* A fold that keeps the left operand.
StaticOpLeft(o, l, r) == l

\* visit(BinaryExpr*): the value of two evaluated static integers (the
\* divisor of // and % is not zero).
StaticOp(o, l, r) ==
  CASE o = "<" -> Truth(l < r)
    [] o = "<=" -> Truth(l <= r)
    [] o = ">" -> Truth(l > r)
    [] o = ">=" -> Truth(l >= r)
    [] o = "==" -> Truth(l = r)
    [] o = "!=" -> Truth(l # r)
    [] o = "&&" -> Truth(l # 0 /\ r # 0)
    [] o = "||" -> Truth(l # 0 \/ r # 0)
    [] o = "+" -> l + r
    [] o = "-" -> l - r
    [] o = "*" -> l * r
    [] o = "//" -> Quot(l, r)
    [] o = "%" -> Rem(l, r)

\* A choice that takes the else branch whatever the condition is.
TakenElse(isTrue, ifSuite, elseSuite) == elseSuite

\* isTrue ? ifSuite : elseSuite
Taken(isTrue, ifSuite, elseSuite) == IF isTrue THEN ifSuite ELSE elseSuite

\* ctx->addUnbound(expr, ctx->typecheckLevel): res is the new variable.
AddUnbound1(p) ==
  [p EXCEPT !.s = [New(p.s, LinkType("Unbound", p.s.cnt, 0, 0, 0, 0))
                     EXCEPT !.cnt = @ + 1, !.created = Append(@, p.s.cnt)]]

\* N<...>(...): the node n is added to the tree; res is where it is.
NewNode(p, n) == [p EXCEPT !.ast = Append(@, n), !.res = Len(p.ast) + 1]

\* ctx->findInternal(name)
FindInternal(h, name) ==
  CHOOSE x \in DOMAIN h : h[x].k = "class" /\ h[x].name = name

RECURSIVE TransformExpr(_, _), VisitExpr(_, _), VisitId(_, _), VisitBinary(_, _),
          TransformBinary(_, _), VisitIfExpr(_, _), TransformStmt(_, _),
          VisitStmt(_, _), VisitIfStmt(_, _), TransformStmts(_, _, _)

\* TypecheckVisitor::transform(expr): res is the expression the caller puts
\* in the place of i, v.resultExpr when the visit set one and i otherwise.
TransformExpr(p, i) ==
  IF Stop(p.s) \/ i = 0 THEN [p EXCEPT !.res = i]
  ELSE IF ~p.ast[i].done THEN
    With(VisitExpr([p EXCEPT !.ast[i].visits = @ + 1, !.res = 0], i), LAMBDA v :
      IF Stop(v.s) THEN v
      ELSE With(UnifyTypes(v, p.ast[i].type, v.ast[IF v.res # 0 THEN v.res ELSE i].type),
             LAMBDA u : [u EXCEPT !.res = IF v.res # 0 THEN v.res ELSE i]))
  ELSE [p EXCEPT !.res = i]

\* visit(IdExpr*): an identifier whose type is static and evaluated becomes
\* the literal of its value.
VisitId(p, i) ==
  With(UnifyExpr(p, i, p.ast[i].ref), LAMBDA q :
    IF Stop(q.s) THEN q
    ELSE IF IsStaticType(q.s.h, q.ast[i].ref) # 0 THEN
      IF GetStatic(q.s.h, q.ast[i].ref) # 0
           /\ q.s.h[GetStatic(q.s.h, q.ast[i].ref)].evaluated
      THEN With(NewNode([q EXCEPT !.ast[i].staticValue.type = "int"],
                        IntExpr(q.s.h[GetStatic(q.s.h, q.ast[i].ref)].value)), LAMBDA n :
             TransformExpr(n, n.res))
      ELSE [q EXCEPT !.ast[i].staticValue.type = "int", !.res = 0]
    ELSE [q EXCEPT !.ast[i].done = Realizable(q.s.h, q.ast[i].type), !.res = 0])

\* transformBinary: with an operand of unknown type the expression gets an
\* Unbound type and waits; otherwise it becomes the call of the magic method
\* of int, whose type is int or bool.
TransformBinary(p, i) ==
  LET l == p.ast[i].kids[1]
      r == p.ast[i].kids[2]
  IN
    IF GetClass(p.s.h, p.ast[l].type) = 0 \/ GetClass(p.s.h, p.ast[r].type) = 0
    THEN With(AddUnbound1(p), LAMBDA a :
           [UnifyExpr(a, i, Alloc(p.s.h)) EXCEPT !.res = 0])
    ELSE With(NewNode(p, [Expr("call", <<l, r>>, 0) EXCEPT
                            !.op = p.ast[i].op,
                            !.type = FindInternal(p.s.h, IF p.ast[i].op \in BoolOps
                                                         THEN "bool" ELSE "int"),
                            !.done = AllDone(p.ast, <<l, r>>)]), LAMBDA n : n)

\* visit(BinaryExpr*)
VisitBinary(p, i) ==
  With(TransformExpr(p, p.ast[i].kids[1]), LAMBDA a :
    With(TransformExpr([a EXCEPT !.ast[i].kids[1] = a.res], a.ast[i].kids[2]), LAMBDA b :
      IF Stop(b.s) THEN b
      ELSE
      LET q == [b EXCEPT !.ast[i].kids[2] = b.res]
          lexpr == q.ast[q.ast[i].kids[1]]
          rexpr == q.ast[q.ast[i].kids[2]]
      IN
        IF lexpr.staticValue.type = "int" /\ rexpr.staticValue.type = "int"
             /\ q.ast[i].op \in StaticOps
        THEN IF lexpr.staticValue.evaluated /\ rexpr.staticValue.evaluated
             THEN IF q.ast[i].op \in {"//", "%"} /\ rexpr.staticValue.value = 0
                  THEN [q EXCEPT !.s.exc = TRUE]
                  ELSE With(NewNode(q,
                         IF q.ast[i].op \in BoolOps
                         THEN BoolExpr(StaticOp(q.ast[i].op, lexpr.staticValue.value,
                                                rexpr.staticValue.value) # 0)
                         ELSE IntExpr(StaticOp(q.ast[i].op, lexpr.staticValue.value,
                                               rexpr.staticValue.value))), LAMBDA n :
                         TransformExpr(n, n.res))
             ELSE [UnifyExpr([q EXCEPT !.ast[i].staticValue.type = "int"], i,
                             FindInternal(q.s.h, "int")) EXCEPT !.res = 0]
        ELSE TransformBinary(q, i)))

\* visit(IfExpr*) of typecheck_expr.cpp
VisitIfExpr(p, i) ==
  With(TransformExpr(p, p.ast[i].kids[1]), LAMBDA c :
    IF Stop(c.s) THEN c
    ELSE
    LET q == [c EXCEPT !.ast[i].kids[1] = c.res]
        cond == q.ast[q.ast[i].kids[1]]
    IN
      IF cond.staticValue.type # "none" THEN
        IF cond.staticValue.evaluated THEN
          With(TransformExpr(q, Taken(cond.staticValue.value # 0, q.ast[i].kids[2],
                                      q.ast[i].kids[3])), LAMBDA t :
            IF Stop(t.s) THEN t
            ELSE [UnifyExpr(t, i, t.ast[t.res].type) EXCEPT !.res = t.res])
        ELSE
          \* the clones of the branches are transformed and dropped
          With(TransformExpr(q, q.ast[i].kids[2]), LAMBDA ci :
            With(TransformExpr(ci, q.ast[i].kids[3]), LAMBDA ce :
              IF Stop(ce.s) THEN ce
              ELSE With(AddUnbound1([q EXCEPT !.s = ce.s]), LAMBDA a :
                     With(UnifyExpr(a, i, Alloc(ce.s.h)), LAMBDA u :
                       With(IF ce.ast[ci.res].staticValue.type # "none"
                               /\ ce.ast[ce.res].staticValue.type # "none"
                            THEN UnifyExpr([u EXCEPT !.ast[i].staticValue.type = "int"], i,
                                           FindInternal(u.s.h, "int"))
                            ELSE u, LAMBDA w :
                         [w EXCEPT !.ast[i].done = FALSE, !.res = 0])))))
      ELSE
        With(TransformExpr(q, q.ast[i].kids[2]), LAMBDA a :
          With(TransformExpr([a EXCEPT !.ast[i].kids[2] = a.res], a.ast[i].kids[3]), LAMBDA b :
            IF Stop(b.s) THEN b
            ELSE
            With(UnifyExpr([b EXCEPT !.ast[i].kids[3] = b.res], i,
                           b.ast[b.ast[i].kids[2]].type), LAMBDA u :
              With(UnifyExpr(u, i, u.ast[u.ast[i].kids[3]].type), LAMBDA w :
                With(TransformExpr(w, w.ast[i].kids[2]), LAMBDA x :
                  With(TransformExpr([x EXCEPT !.ast[i].kids[2] = x.res], x.ast[i].kids[3]),
                       LAMBDA y :
                    IF Stop(y.s) THEN y
                    ELSE [y EXCEPT !.ast[i].kids[3] = y.res,
                                   !.ast[i].done = AllDone(y.ast, <<y.ast[i].kids[1],
                                                             y.ast[i].kids[2], y.res>>),
                                   !.res = 0])))))))

\* expr->accept(v): res is v.resultExpr, 0 when the visit left it unset. An
\* expression of kind "static" is one whose visitor gives it the static type
\* it refers to.
VisitExpr(p, i) ==
  IF p.ast[i].k = "int" THEN
    With(UnifyExpr(p, i, FindInternal(p.s.h, "int")), LAMBDA q :
      [q EXCEPT !.ast[i].done = TRUE, !.res = 0])
  ELSE IF p.ast[i].k = "bool" THEN
    With(UnifyExpr(p, i, FindInternal(p.s.h, "bool")), LAMBDA q :
      [q EXCEPT !.ast[i].done = TRUE, !.res = 0])
  ELSE IF p.ast[i].k = "id" THEN VisitId(p, i)
  ELSE IF p.ast[i].k = "static" THEN
    With(UnifyExpr(p, i, p.ast[i].ref), LAMBDA q :
      [q EXCEPT !.ast[i].done = Realizable(q.s.h, q.ast[i].type), !.res = 0])
  ELSE IF p.ast[i].k = "bin" THEN VisitBinary(p, i)
  ELSE IF p.ast[i].k = "ifexpr" THEN VisitIfExpr(p, i)
  ELSE [p EXCEPT !.res = 0]

\* stmt = transform(stmt) for each statement of a suite
TransformStmts(p, i, j) ==
  IF Stop(p.s) \/ j > Len(p.ast[i].kids) THEN p
  ELSE With(TransformStmt(p, p.ast[i].kids[j]), LAMBDA q :
         TransformStmts([q EXCEPT !.ast[i].kids[j] = q.res], i, j + 1))

\* visit(IfStmt*) of cond.cpp, with evaluateStaticCondition: a condition of
\* static type that can be realized picks the suite that is transformed and
\* returned (an empty suite when there is none); one that cannot yet leaves
\* the statement for a later pass.
VisitIfStmt(p, i) ==
  With(TransformExpr(p, p.ast[i].kids[1]), LAMBDA c :
    IF Stop(c.s) THEN c
    ELSE
    LET q == [c EXCEPT !.ast[i].kids[1] = c.res]
        cond == q.ast[q.ast[i].kids[1]]
    IN
      IF IsStaticType(q.s.h, cond.type) # 0 THEN
        IF CanRealize(q.s.h, cond.type) THEN
          With(TransformStmt(q, Taken(Evaluate(q.s.h, Follow(q.s.h, cond.type)) # 0,
                                      q.ast[i].kids[2], q.ast[i].kids[3])), LAMBDA t :
            IF Stop(t.s) \/ t.res # 0 THEN t
            ELSE With(NewNode(t, Expr("suite", <<>>, 0)), LAMBDA n : TransformStmt(n, n.res)))
        ELSE [q EXCEPT !.res = 0]
      ELSE
        With(TransformStmt(q, q.ast[i].kids[2]), LAMBDA a :
          With(TransformStmt([a EXCEPT !.ast[i].kids[2] = a.res], a.ast[i].kids[3]), LAMBDA b :
            IF Stop(b.s) THEN b
            ELSE [b EXCEPT !.ast[i].kids[3] = b.res,
                           !.ast[i].done =
                             /\ b.ast[b.ast[i].kids[1]].done
                             /\ b.ast[i].kids[2] = 0 \/ b.ast[b.ast[i].kids[2]].done
                             /\ b.res = 0 \/ b.ast[b.res].done,
                           !.res = 0])))

\* stmt->accept(v) for an if-statement, a suite and an expression statement
VisitStmt(p, i) ==
  IF p.ast[i].k = "ifstmt" THEN VisitIfStmt(p, i)
  ELSE IF p.ast[i].k = "suite" THEN
    With(TransformStmts(p, i, 1), LAMBDA q :
      IF Stop(q.s) THEN q
      ELSE [q EXCEPT !.ast[i].done = AllDone(q.ast, q.ast[i].kids), !.res = 0])
  ELSE
    With(TransformExpr(p, p.ast[i].kids[1]), LAMBDA q :
      IF Stop(q.s) THEN q
      ELSE [q EXCEPT !.ast[i].kids[1] = q.res, !.ast[i].done = q.ast[q.res].done,
                     !.res = 0])

\* TypecheckVisitor::transform(stmt): if (v.resultStmt) stmt = v.resultStmt
TransformStmt(p, i) ==
  IF Stop(p.s) \/ i = 0 THEN [p EXCEPT !.res = i]
  ELSE IF ~p.ast[i].done THEN
    With(VisitStmt([p EXCEPT !.ast[i].visits = @ + 1, !.res = 0], i), LAMBDA v :
      IF Stop(v.s) THEN v ELSE [v EXCEPT !.res = IF v.res # 0 THEN v.res ELSE i])
  ELSE [p EXCEPT !.res = i]

\* int, bool, the static integers 0 and 1, a static generic N that is not
\* bound yet, a variable of unknown type, the static integer 2.
GraphStatic ==
  <<ClassType("int", <<>>), ClassType("bool", <<>>), StaticInt(0), StaticInt(1),
    VarS(0, 0), Var(1, 0), StaticInt(2)>>

\* The operands: literals, the static N (evaluated or not), a variable of
\* type int and one of unknown type.
Leaves ==
  {IntExpr(v) : v \in {0, 1, 3, 4}}
    \cup {Expr("id", <<>>, ref) : ref \in {1, 3, 4, 5, 6}}

\* The conditions of an if-statement: an expression of static type
\* (evaluated or not) or of type bool.
Conds == {Expr("static", <<>>, ref) : ref \in {2, 3, 4, 5, 7}}

\* l op r;  (l op r) op2 c;  c if l op r else e;  c if l else e;
\* if cond: a else: b   with either suite missing or not.
StaticInputs ==
  {<<a, b, BinaryExpr(o, 1, 2), Expr("exprstmt", <<3>>, 0)>> :
     a \in Leaves, b \in Leaves, o \in StaticOps \cup {"/"}}
  \cup {<<a, b, BinaryExpr(o, 1, 2), IntExpr(2), BinaryExpr(op2, 3, 4),
          Expr("exprstmt", <<5>>, 0)>> :
     a \in {IntExpr(1), IntExpr(3)}, b \in {IntExpr(4), Expr("id", <<>>, 5)},
     o \in {"+", "-", "<"}, op2 \in {"*", "//", "%", "=="}}
  \cup {<<a, IntExpr(1), BinaryExpr("==", 1, 2), c, IntExpr(0), Expr("ifexpr", <<3, 4, 5>>, 0),
          Expr("exprstmt", <<6>>, 0)>> :
     a \in Leaves, c \in Leaves}
  \cup {<<a, c, e, Expr("ifexpr", <<1, 2, 3>>, 0), Expr("exprstmt", <<4>>, 0)>> :
     a \in Leaves, c \in {IntExpr(3), Expr("id", <<>>, 6)},
     e \in {IntExpr(4), Expr("id", <<>>, 5)}}
  \cup {<<cond, a, Expr("exprstmt", <<2>>, 0), Expr("suite", <<3>>, 0),
          b, Expr("exprstmt", <<5>>, 0), Expr("suite", <<6>>, 0),
          Expr("ifstmt", <<1, ifSuite, elseSuite>>, 0)>> :
     cond \in Conds, a \in {IntExpr(3), Expr("id", <<>>, 6)},
     b \in {IntExpr(4), Expr("id", <<>>, 5)}, ifSuite \in {0, 4}, elseSuite \in {0, 7}}

\* run.result is the statement the caller holds, run.root and run.before the
\* statement and the tree the last pass was given, run.last the last step.
InitStatic ==
  \E in \in StaticInputs :
    /\ heap = MkHeap(GraphStatic)
    /\ roots = {}
    /\ undo = EmptyUndo
    /\ pc = "idle"
    /\ op = NoOp
    /\ pre = heap
    /\ created = IdsOf(GraphStatic, 1)
    /\ unboundCount = UnboundCountInit + Len(IdsOf(GraphStatic, 1))
    /\ calls = 0
    /\ cache = NoCache
    /\ ctx = NoCtx
    /\ suite = in
    /\ run = [pc |-> "loop", result |-> Len(in), root |-> Len(in), passes |-> 0,
              before |-> in, bound |-> FALSE, last |-> "none"]

\* result = transform(result): one pass of the visitor over the statement.
StaticPass ==
  /\ run.pc = "loop"
  /\ run.passes < MaxPasses
  /\ \E p \in {TransformStmt([Visitor(heap, created, suite) EXCEPT !.s.cnt = unboundCount],
                             run.result)} :
       /\ heap' = p.s.h
       /\ created' = p.s.created
       /\ unboundCount' = p.s.cnt
       /\ suite' = p.ast
       /\ run' = [run EXCEPT !.pc = After(p.s, "loop"), !.result = p.res,
                             !.root = run.result, !.passes = @ + 1, !.before = suite,
                             !.last = "pass"]
       /\ UNCHANGED <<roots, undo, pc, op, pre, calls, cache, ctx>>

\* A realization binds the static generic N to a value.
BindStatic ==
  /\ run.pc = "loop"
  /\ ~run.bound
  /\ \E v \in {3, 4, 7} :
       \E r \in {Unify(Run(heap, EmptyUndo, created), 5, v, TRUE)} :
         /\ heap' = r.h
         /\ run' = [run EXCEPT !.bound = TRUE, !.last = "bind"]
         /\ UNCHANGED <<roots, undo, pc, op, pre, created, unboundCount, calls, cache, ctx, suite>>

NextStatic == StaticPass \/ BindStatic
SpecStatic == InitStatic /\ [][NextStatic]_vars

\* ------------------------------------------------------------- overloads
\* int, float, the generics T and U, and the overloads of foo:
\* foo(a: int) -> int, foo(a: float) -> float, foo[T](a: T) -> T and
\* foo[U](a: U) -> U.
GraphOverloads ==
  <<RecordType("int", <<>>, <<>>), RecordType("float", <<>>, <<>>),
    LinkType("Generic", UnboundCountInit, 0, 0, 0, 0),
    LinkType("Generic", UnboundCountInit + 1, 0, 0, 0, 0),
    Tuple1(1), FuncType("foo", <<5, 1>>, <<>>, 0),
    Tuple1(2), FuncType("foo", <<7, 2>>, <<>>, 0),
    Tuple1(3), FuncType("foo", <<9, 3>>, <<3>>, 0),
    Tuple1(4), FuncType("foo", <<11, 4>>, <<4>>, 0)>>

\* The overloads of foo there are to define.
Overloads == {x \in 1..Len(GraphOverloads) : GraphOverloads[x].k = "func"}

\* The lists of distinct overloads, in the order of their definitions.
OverloadLists ==
  {ms \in UNION {[1..n -> Overloads] : n \in 0..Cardinality(Overloads)} :
     \A i, j \in 1..Len(ms) : ms[i] = ms[j] => i = j}

\* std::reverse(methods.begin(), methods.end())
Reverse(xs) == [i \in 1..Len(xs) |-> xs[Len(xs) + 1 - i]]

\* The instance m of a method goes out of scope: what was allocated since h0
\* is freed.
Release(h0, h) == [x \in DOMAIN h |-> IF h0[x] = NoNode THEN NoNode ELSE h[x]]

RECURSIVE AcceptsArgs(_, _, _, _)
\* for (ai...) try { wrapExpr(dummy, expectTyp, m, /*undoOnSuccess*/ true); }
\*             catch (const exc::ParserException &) { score = -1; }
\* ret is the score.
AcceptsArgs(p, m, args, ai) ==
  IF ai > Len(args) THEN [p EXCEPT !.s.ret = 0]
  ELSE With(WrapExpr(p, args[ai], GetArgTypes(p.s.h, m)[ai], TRUE), LAMBDA w :
         IF w.s.exc THEN [w EXCEPT !.s.exc = FALSE, !.s.ret = -1]
         ELSE AcceptsArgs(w, m, args, ai + 1))

RECURSIVE FindMatchingMethods(_, _, _, _, _)
\* TypecheckVisitor::findMatchingMethods(nullptr, methods, args): every
\* method is instantiated and tried; results is the methods that accept the
\* arguments, in the order of methods. A method with as many parameters as
\* there are arguments takes them in order.
FindMatchingMethods(p, methods, args, mi, results) ==
  IF mi > Len(methods) \/ Stop(p.s) THEN [p EXCEPT !.s.m = results]
  ELSE With(Instantiate([p.s EXCEPT !.cache = <<>>], methods[mi], 0, TRUE), LAMBDA i :
         With(AcceptsArgs([p EXCEPT !.s = i], i.res, args, 1), LAMBDA a :
           FindMatchingMethods([a EXCEPT !.s.h = Release(p.s.h, a.s.h)], methods, args, mi + 1,
                               IF a.s.ret # -1 THEN Append(results, methods[mi]) ELSE results)))

\* return m.empty() ? nullptr : m[0];
Best(m) == IF Len(m) = 0 THEN 0 ELSE m[1]

\* The overloads of foo in the order of their definitions, and the type of
\* the argument of a call.
InitOverloads ==
  \E ms \in OverloadLists, arg \in {1, 2} :
    /\ heap = MkHeap(GraphOverloads)
    /\ roots = {}
    /\ undo = EmptyUndo
    /\ pc = "idle"
    /\ op = NoOp
    /\ pre = heap
    /\ created = IdsOf(GraphOverloads, 1)
    /\ unboundCount = UnboundCountInit + Len(IdsOf(GraphOverloads, 1))
    /\ calls = 0
    /\ cache = NoCache
    /\ ctx = NoCtx
    /\ suite = <<>>
    /\ run = [pc |-> "idle", overloads |-> ms, args |-> <<arg>>, matching |-> <<>>, ret |-> 0]

\* findBestMethod(fn, args): the overloads of fn, the latest first, and of
\* those that match the first.
FindBestMethod ==
  /\ run.pc = "idle"
  /\ \E p \in {FindMatchingMethods([Visitor(heap, created, <<>>) EXCEPT !.s.cnt = unboundCount],
                                   Reverse(run.overloads), run.args, 1, <<>>)} :
       /\ heap' = p.s.h
       /\ created' = p.s.created
       /\ unboundCount' = p.s.cnt
       /\ run' = [run EXCEPT !.pc = After(p.s, "returned"), !.matching = p.s.m,
                             !.ret = Best(p.s.m)]
       /\ UNCHANGED <<roots, undo, pc, op, pre, calls, cache, ctx, suite>>

NextOverloads == FindBestMethod
SpecOverloads == InitOverloads /\ [][NextOverloads]_vars

\* ---------------------------------------------------------------- dispatch
\* Number of references to overloaded names the type checker meets.
MaxRefs == 3
\* Most overloads a name has.
MaxOverloads == 3

\* The overloaded names.
Fns == {<<"foo">>, <<"bar">>}

\* format("{}:{}", rootName, overloads[rootName].size()): the canonical name of
\* the overload defined when the name has k overloads already.
CanonicalName(fn, k) == Append(fn, <<"0", "1", "2", "3", "4", "5">>[k + 1])

\* fn + ":dispatch"
DispatchName(fn) == Append(fn, "dispatch")

\* endswith(name, ":dispatch")
EndsWithDispatch(name) == name[Len(name)] = "dispatch"

\* The overloads of foo and of bar as the simplifier left them: nf and nb
\* functions, each with its type.
DispatchNames(nf, nb) ==
  [i \in 1..(nf + nb) |-> IF i <= nf THEN CanonicalName(<<"foo">>, i - 1)
                          ELSE CanonicalName(<<"bar">>, i - nf - 1)]

GraphDispatch(nf, nb) ==
  [i \in 1..(nf + nb) |-> FuncType(DispatchNames(nf, nb)[i], <<>>, <<>>, 0)]

\* getFuncTypeBase(nargs = 2): the record Function[Tuple[?, ?], ?] over fresh
\* variables of the current level; res is the record.
GetFuncTypeBase(s, level) ==
  With([New(s, LinkType("Unbound", s.cnt, level, 0, 0, 0)) EXCEPT !.cnt = @ + 1], LAMBDA a :
    With([New(a, LinkType("Unbound", a.cnt, level, 0, 0, 0)) EXCEPT !.cnt = @ + 1], LAMBDA b :
      With([New(b, LinkType("Unbound", b.cnt, level, 0, 0, 0)) EXCEPT !.cnt = @ + 1], LAMBDA r :
        With(New(r, Tuple2(a.res, b.res)), LAMBDA t :
          [t EXCEPT !.m = <<t.res, r.res>>]))))

\* Generating the wrapper: std::make_shared<FuncType>(baseType, ast.get()) and
\* typ->generalize(atLevel); res is the generalized type.
MakeDispatch(s, name, level, atLevel) ==
  With(GetFuncTypeBase(s, level), LAMBDA base :
    With(New(base, FuncType(name, base.m, <<>>, 0)), LAMBDA typ :
      Generalize(typ, typ.res, atLevel)))

\* The first overload of the list whose function is a dispatch wrapper, 0 if
\* there is none:
\*   for (auto &m : overloads) if (endswith(functions[m.name].ast->name, ":dispatch"))
ExistingDispatch(c, fn) ==
  IF \E i \in 1..Len(c.overloads[fn]) : EndsWithDispatch(c.functions[c.overloads[fn][i]].ast)
  THEN CHOOSE i \in 1..Len(c.overloads[fn]) :
         /\ EndsWithDispatch(c.functions[c.overloads[fn][i]].ast)
         /\ \A j \in 1..(i - 1) : ~EndsWithDispatch(c.functions[c.overloads[fn][j]].ast)
  ELSE 0

\* A generation that does not enter the wrapper in the list of overloads.
Unlisted(c, fn, name, typ) ==
  [c EXCEPT !.functions = (name :> [ast |-> name, type |-> typ]) @@ @]

\* overloads.insert(overloads.begin(), {name, 0});
\* functions[name].ast = ast; functions[name].type = typ;
Listed(c, fn, name, typ) ==
  [c EXCEPT !.overloads[fn] = <<name>> \o @,
            !.functions = (name :> [ast |-> name, type |-> typ]) @@ @]

InitDispatch ==
  \E nf \in 1..MaxOverloads, nb \in 1..MaxOverloads, level \in 1..(MaxLevel + 1) :
    /\ heap = MkHeap(GraphDispatch(nf, nb))
    /\ roots = 1..(nf + nb)
    /\ undo = EmptyUndo
    /\ pc = "idle"
    /\ op = NoOp
    /\ pre = heap
    /\ created = <<>>
    /\ unboundCount = UnboundCountInit
    /\ calls = 0
    /\ cache = [NoCache EXCEPT
                  !.functions = [n \in {DispatchNames(nf, nb)[i] : i \in 1..(nf + nb)} |->
                                   [ast |-> n,
                                    type |-> CHOOSE i \in 1..(nf + nb) :
                                               DispatchNames(nf, nb)[i] = n]]]
               @@ [overloads |->
                     [fn \in Fns |->
                        IF fn = <<"foo">> THEN [i \in 1..nf |-> CanonicalName(fn, i - 1)]
                        ELSE [i \in 1..nb |-> CanonicalName(fn, i - 1)]]]
    /\ ctx = [NoCtx EXCEPT !.typecheckLevel = level]
    /\ suite = <<>>
    /\ run = [pc |-> "idle", refs |-> <<>>, generated |-> <<>>]

\* What a reference leaves: the type it received, and the wrapper it
\* generated if it did.
Referred(fn, typ, s, c, made) ==
  /\ ~s.oom
  /\ heap' = Collect(s.h, roots \cup {typ})
  /\ roots' = roots \cup {typ}
  /\ unboundCount' = s.cnt
  /\ cache' = c
  /\ run' = [run EXCEPT !.refs = Append(@, <<fn, typ>>),
                        !.generated = IF made THEN Append(@, <<fn, typ>>) ELSE @]
  /\ UNCHANGED <<undo, pc, op, pre, created, calls, ctx, suite>>

\* TypecheckVisitor::getDispatch(fn)
GetDispatch(fn) ==
  /\ Len(run.refs) < MaxRefs
  /\ LET s == [Run(heap, EmptyUndo, created) EXCEPT !.cnt = unboundCount]
         overloads == cache.overloads[fn]
     IN IF Len(overloads) = 1
        THEN Referred(fn, cache.functions[overloads[1]].type, s, cache, FALSE)
        ELSE IF ExistingDispatch(cache, fn) # 0
        THEN Referred(fn, cache.functions[overloads[ExistingDispatch(cache, fn)]].type,
                      s, cache, FALSE)
        ELSE \E r \in {MakeDispatch(s, DispatchName(fn), ctx.typecheckLevel,
                                    ctx.typecheckLevel - 1)} :
               Referred(fn, r.res, r, Listed(cache, fn, DispatchName(fn), r.res), TRUE)

\* TypecheckVisitor::findDispatch(fn)
FindDispatch(fn) ==
  /\ Len(run.refs) < MaxRefs
  /\ LET s == [Run(heap, EmptyUndo, created) EXCEPT !.cnt = unboundCount]
         overloads == cache.overloads[fn]
     IN IF ExistingDispatch(cache, fn) # 0
        THEN Referred(fn, cache.functions[overloads[ExistingDispatch(cache, fn)]].type,
                      s, cache, FALSE)
        ELSE \E r \in {MakeDispatch(s, DispatchName(fn), ctx.typecheckLevel,
                                    ctx.typecheckLevel)} :
               Referred(fn, r.res, r, Listed(cache, fn, DispatchName(fn), r.res), TRUE)

NextDispatch ==
  \/ \E fn \in Fns : GetDispatch(fn)
  \/ \E fn \in Fns : FindDispatch(fn)

SpecDispatch == InitDispatch /\ [][NextDispatch]_vars

\* ------------------------------------------------------------------- match
\* Most times the lowered loop is followed round.
MaxIterations == 3
\* Most cases of a match statement.
MaxCases == 2

\* Statements: N<SuiteStmt>, N<IfStmt>, N<AssignStmt>, N<BreakStmt>,
\* N<WhileStmt>, a continue, and the statements of the suite of case i.
SuiteStmt(stmts) == [k |-> "suite", stmts |-> stmts]
IfStmt(cond, ifSuite) == [k |-> "if", cond |-> cond, ifSuite |-> ifSuite]
AssignStmt(lhs) == [k |-> "assign", lhs |-> lhs]
BreakStmt == [k |-> "break"]
ContinueStmt == [k |-> "continue"]
WhileStmt(cond, body) == [k |-> "while", cond |-> cond, body |-> body]
CaseBody(i) == [k |-> "body", case |-> i]

\* The patterns of a case: 1, 2, 1...2, 1 | 2, _, x, (x := 2).
IntPattern(v) == [k |-> "int", value |-> v]
RangePattern(a, b) == [k |-> "range", start |-> a, stop |-> b]
OrPattern(l, r) == [k |-> "binary", op |-> "|", lexpr |-> l, rexpr |-> r]
IdPattern(name) == [k |-> "id", value |-> name]
AssignPattern(name, e) == [k |-> "assign", var |-> name, expr |-> e]

Patterns ==
  <<IntPattern(1), IntPattern(2), RangePattern(1, 2),
    OrPattern(IntPattern(1), IntPattern(2)), IdPattern("_"), IdPattern("x"),
    AssignPattern("x", IntPattern(2))>>

\* What the suite of a case ends with in the source.
Endings == {"pass", "continue", "break"}

\* The suite of case i as written: its statements and what it ends with.
CaseSuite(i, ending) ==
  SuiteStmt(<<CaseBody(i)>> \o (IF ending = "continue" THEN <<ContinueStmt>>
                                ELSE IF ending = "break" THEN <<BreakStmt>>
                                ELSE <<>>))

\* The conditions the lowering puts in front of a suite.
IsInstance(typ) == [k |-> "isinstance", typ |-> typ]
Compare(o, v) == [k |-> "compare", op |-> o, value |-> v]
BoolExprOf(b) == [k |-> "bool", value |-> b]

RECURSIVE TransformPattern(_, _)
\* TypecheckVisitor::transformPattern(var, pattern, suite): the statement that
\* runs body when var matches the pattern.
TransformPattern(pattern, body) ==
  IF pattern.k = "int" THEN
    IfStmt(IsInstance("int"), IfStmt(Compare("==", pattern.value), body))
  ELSE IF pattern.k = "range" THEN
    IfStmt(IsInstance("int"),
           IfStmt(Compare(">=", pattern.start), IfStmt(Compare("<=", pattern.stop), body)))
  ELSE IF pattern.k = "binary" THEN
    SuiteStmt(<<TransformPattern(pattern.lexpr, body), TransformPattern(pattern.rexpr, body)>>)
  ELSE IF pattern.k = "id" THEN
    IF pattern.value # "_" THEN SuiteStmt(<<AssignStmt(pattern.value), body>>) ELSE body
  ELSE
    SuiteStmt(<<AssignStmt(pattern.var), TransformPattern(pattern.expr, body)>>)

RECURSIVE MatchCases(_, _)
\* for (auto &c : stmt->cases): the statements of the cases from the i-th on.
MatchCases(cases, i) ==
  IF i > Len(cases) THEN <<>>
  ELSE LET c == cases[i]
           inner == SuiteStmt(<<CaseSuite(i, c.ending), BreakStmt>>)
           guarded == IF c.guard = "none" THEN inner
                      ELSE IfStmt(BoolExprOf(c.guard = "true"), inner)
       IN <<TransformPattern(Patterns[c.pattern], guarded)>> \o MatchCases(cases, i + 1)

\* TypecheckVisitor::visit(MatchStmt*): while True over the assignment of the
\* subject, the cases and a last break.
LowerMatch(cases) ==
  WhileStmt(BoolExprOf(TRUE),
            SuiteStmt(<<AssignStmt("match")>> \o MatchCases(cases, 1) \o <<BreakStmt>>))

\* The value of a condition when the subject is the integer v.
Holds(cond, v) ==
  IF cond.k = "isinstance" THEN cond.typ = "int"
  ELSE IF cond.k = "bool" THEN cond.value
  ELSE IF cond.op = "==" THEN v = cond.value
  ELSE IF cond.op = ">=" THEN v >= cond.value
  ELSE v <= cond.value

RECURSIVE Exec(_, _, _), ExecEach(_, _, _, _)
\* One statement run with the subject v: flow is "next" when control goes on
\* to the statement after it, "break" or "continue" when it leaves for the
\* innermost loop; ran is the cases whose suites were entered, in order.
Exec(stmt, v, st) ==
  IF st.flow # "next" THEN st
  ELSE IF stmt.k = "suite" THEN ExecEach(stmt.stmts, 1, v, st)
  ELSE IF stmt.k = "if" THEN
    IF Holds(stmt.cond, v) THEN Exec(stmt.ifSuite, v, st) ELSE st
  ELSE IF stmt.k = "body" THEN [st EXCEPT !.ran = Append(@, stmt.case)]
  ELSE IF stmt.k = "break" THEN [st EXCEPT !.flow = "break"]
  ELSE IF stmt.k = "continue" THEN [st EXCEPT !.flow = "continue"]
  ELSE st

ExecEach(stmts, i, v, st) ==
  IF i > Len(stmts) \/ st.flow # "next" THEN st
  ELSE ExecEach(stmts, i + 1, v, Exec(stmts[i], v, st))

\* The match statements there are to lower: one or two cases, each a pattern,
\* a guard that is absent, true or false, and a suite.
MatchCase == [pattern : 1..Len(Patterns), guard : {"none", "true", "false"}, ending : Endings]
MatchStmts == UNION {[1..n -> MatchCase] : n \in 1..MaxCases}

InitMatch ==
  \E cases \in MatchStmts, v \in 1..3 :
    /\ heap = MkHeap(<<>>)
    /\ roots = {}
    /\ undo = EmptyUndo
    /\ pc = "idle"
    /\ op = NoOp
    /\ pre = heap
    /\ created = <<>>
    /\ unboundCount = UnboundCountInit
    /\ calls = 0
    /\ cache = NoCache
    /\ ctx = NoCtx
    /\ suite = <<>>
    /\ run = [pc |-> "match", cases |-> cases, what |-> v, resultStmt |-> <<>>,
              iterations |-> 0, ran |-> <<>>]

\* The type checker meets the match statement and puts the loop in its place.
VisitMatch ==
  /\ run.pc = "match"
  /\ run' = [run EXCEPT !.pc = "loop", !.resultStmt = LowerMatch(run.cases)]
  /\ UNCHANGED <<graph, cache, ctx, suite>>

\* The program follows the loop round once: the condition is True, the body
\* runs, and a break leaves the loop while anything else comes back to the
\* condition.
Iterate ==
  /\ run.pc = "loop"
  /\ run.iterations < MaxIterations
  /\ \E r \in {Exec(run.resultStmt.body, run.what, [flow |-> "next", ran |-> run.ran])} :
       run' = [run EXCEPT !.iterations = @ + 1, !.ran = r.ran,
                          !.pc = IF r.flow = "break" THEN "exited" ELSE "loop"]
  /\ UNCHANGED <<graph, cache, ctx, suite>>

NextMatch == VisitMatch \/ Iterate
SpecMatch == InitMatch /\ [][NextMatch]_vars

\* -------------------------------------------------------- default arguments
\* Number of calls without arguments the type checker meets at the top level.
MaxDefaultCalls == 2
\* Most default expressions entered and not left before the model stops
\* following the recursion.
MaxDefaultDepth == 5

\* The functions, each with one parameter that has a default.
DefaultFns == {"f", "g", "h"}

\* The default expressions there are: a call without arguments of one of the
\* functions, or a literal.
DefaultExprs == DefaultFns \cup {"lit"}

\* Expr::toString() of a default expression.
ExprToString(e) == IF e = "lit" THEN <<"1">> ELSE <<"(call ", e, ")">>

\* A test that never finds the expression.
NotInDepth(depth, es) == FALSE

\* in(ctx->defaultCallDepth, es)
InDepth(depth, es) == es \in depth

InitDefaults ==
  \E deflt \in [DefaultFns -> DefaultExprs] :
    /\ heap = MkHeap(<<>>)
    /\ roots = {}
    /\ undo = EmptyUndo
    /\ pc = "idle"
    /\ op = NoOp
    /\ pre = heap
    /\ created = <<>>
    /\ unboundCount = UnboundCountInit
    /\ calls = 0
    /\ cache = NoCache
    /\ ctx = [realizationDepth |-> 0, bases |-> <<>>, changedNodes |-> 0,
              typecheckLevel |-> 0, pendingDefaults |-> <<>>, blocks |-> 0,
              defaultCallDepth |-> {}]
    /\ suite = <<>>
    /\ run = [pc |-> "idle", deflt |-> deflt, stack |-> <<>>, error |-> "",
              again |-> FALSE]

\* The call the type checker is at: any at the top level, and inside a
\* default expression the call that expression is, once.
CallsNow(fn) ==
  IF run.stack = <<>> THEN run.pc = "idle" /\ calls < MaxDefaultCalls
  ELSE /\ run.pc = "typing"
       /\ ~run.stack[Len(run.stack)].called
       /\ run.stack[Len(run.stack)].deflt = fn

\* The default expressions entered and not left.
Entered == {run.stack[i].es : i \in 1..Len(run.stack)}

\* callReorderArguments for a call of fn that gives no argument: the slot is
\* empty and the default is filled in,
\*   if (in(ctx->defaultCallDepth, es)) error("recursive default arguments");
\*   ctx->defaultCallDepth.insert(es); transform(clone(deflt)) ...
\* again records whether es was entered and not left when the call was met.
FillDefault(fn) ==
  /\ CallsNow(fn)
  /\ Len(run.stack) < MaxDefaultDepth
  /\ LET es == ExprToString(run.deflt[fn])
         marked == IF run.stack = <<>> THEN run.stack
                   ELSE [run.stack EXCEPT ![Len(run.stack)].called = TRUE]
     IN IF InDepth(ctx.defaultCallDepth, es)
        THEN /\ run' = [run EXCEPT !.pc = "raised", !.stack = marked,
                                   !.error = "recursive default arguments",
                                   !.again = es \in Entered]
             /\ ctx' = ctx
        ELSE /\ run' = [run EXCEPT !.pc = "typing", !.again = es \in Entered,
                                   !.stack = Append(marked, [es |-> es, deflt |-> run.deflt[fn],
                                                             called |-> FALSE])]
             /\ ctx' = [ctx EXCEPT !.defaultCallDepth = @ \cup {es}]
  /\ calls' = IF run.stack = <<>> THEN calls + 1 ELSE calls
  /\ UNCHANGED <<heap, roots, undo, pc, op, pre, unboundCount, created, cache, suite>>

\* ... the transform of the default returns: ctx->defaultCallDepth.erase(es)
FilledDefault ==
  /\ run.pc = "typing"
  /\ run.stack # <<>>
  /\ LET top == run.stack[Len(run.stack)] IN
       /\ top.deflt = "lit" \/ top.called
       /\ ctx' = [ctx EXCEPT !.defaultCallDepth = @ \ {top.es}]
       /\ run' = [run EXCEPT !.stack = SubSeq(@, 1, Len(@) - 1),
                             !.pc = IF Len(run.stack) = 1 THEN "idle" ELSE "typing"]
  /\ UNCHANGED <<graph, cache, suite>>

\* The error leaves every transform it was raised under and is caught where
\* a candidate is probed: catch (const exc::ParserException &) { score = -1; }
CatchError ==
  /\ run.pc = "raised"
  /\ run' = [run EXCEPT !.pc = "idle", !.stack = <<>>, !.error = "", !.again = FALSE]
  /\ UNCHANGED <<graph, cache, ctx, suite>>

NextDefaults ==
  \/ \E fn \in DefaultFns : FillDefault(fn)
  \/ FilledDefault
  \/ CatchError

SpecDefaults == InitDefaults /\ [][NextDefaults]_vars

\* ----------------------------------------------------------------- probing
\* int, float, the generic T, the caller's variable ?257 and its List[?257],
\* the variable ?258 of a parameter whose type is not inferred yet, and the
\* overloads of foo: foo(a: int) -> int, foo(a: float) -> float,
\* foo[T](a: T) -> T, foo(a: ?258) -> ?258 and foo[T](a: List[T]) -> T.
GraphProbing ==
  <<RecordType("int", <<>>, <<>>), RecordType("float", <<>>, <<>>),
    LinkType("Generic", UnboundCountInit, 0, 0, 0, 0),
    Var(1, 0), ClassType("List", <<4>>), Var(2, 0), ClassType("List", <<3>>),
    Tuple1(1), FuncType("foo", <<8, 1>>, <<>>, 0),
    Tuple1(2), FuncType("foo", <<10, 2>>, <<>>, 0),
    Tuple1(3), FuncType("foo", <<12, 3>>, <<3>>, 0),
    Tuple1(6), FuncType("foo", <<14, 6>>, <<>>, 0),
    Tuple1(7), FuncType("foo", <<16, 3>>, <<3>>, 0)>>

\* The overloads of foo there are to define.
ProbedOverloads == {x \in 1..Len(GraphProbing) : GraphProbing[x].k = "func"}

\* The lists of distinct overloads, in the order of their definitions.
ProbedLists ==
  {ms \in UNION {[1..n -> ProbedOverloads] : n \in 0..Cardinality(ProbedOverloads)} :
     \A i, j \in 1..Len(ms) : ms[i] = ms[j] => i = j}

\* The overloads of foo in the order of their definitions, and the type of
\* the argument of a call: int, the variable ?257 or List[?257].
InitProbing ==
  \E ms \in ProbedLists, arg \in {1, 4, 5} :
    /\ heap = MkHeap(GraphProbing)
    /\ roots = {}
    /\ undo = EmptyUndo
    /\ pc = "idle"
    /\ op = NoOp
    /\ pre = heap
    /\ created = IdsOf(GraphProbing, 1)
    /\ unboundCount = UnboundCountInit + Len(IdsOf(GraphProbing, 1))
    /\ calls = 0
    /\ cache = NoCache
    /\ ctx = NoCtx
    /\ suite = <<>>
    /\ run = [pc |-> "idle", overloads |-> ms, args |-> <<arg>>, matching |-> <<>>, ret |-> 0]

SpecProbing == InitProbing /\ [][NextOverloads]_vars

\* ----------------------------------------------------------------- mergeC3
\* Number of sequences handed to mergeC3 and length of a sequence.
MaxSeqs == 3
MaxSeqLen == 3

\* getTypeName() of the expressions the sequences hold.
TypeNames == {"A", "B", "C"}

\* The sequences of at most n type names.
NameSeqs(n) == UNION {[1..k -> TypeNames] : k \in 0..n}

\* for (size_t j = 1; j < s.size(); j++) in |= (name == s[j]->getTypeName()):
\* name is in s past its head.
InTail(s, name) == \E j \in 2..Len(s) : s[j] = name

\* A merge that takes the head of the first sequence that is not empty.
AlwaysHead(seqs, name) == FALSE

\* nothead: name is in the tail of one of the sequences.
NotHead(seqs, name) == \E i \in 1..Len(seqs) : seqs[i] # <<>> /\ InTail(seqs[i], name)

\* found: one of the sequences is not empty.
Found(seqs) == \E i \in 1..Len(seqs) : seqs[i] # <<>>

\* The sequences whose head is in no tail.
Candidates(seqs) ==
  {i \in 1..Len(seqs) : seqs[i] # <<>> /\ ~NotHead(seqs, seqs[i][1])}

\* cand: the head of the first such sequence, "" for nullptr.
Cand(seqs) ==
  IF Candidates(seqs) = {} THEN ""
  ELSE seqs[CHOOSE i \in Candidates(seqs) : \A j \in Candidates(seqs) : i <= j][1]

\* for (auto &s : seqs) if (!s.empty() && cand == s[0]) s.erase(s.begin());
EraseHeads(seqs, cand) ==
  [i \in 1..Len(seqs) |->
     IF seqs[i] # <<>> /\ seqs[i][1] = cand THEN Tail(seqs[i]) ELSE seqs[i]]

\* A call of mergeC3 on any list of sequences: input keeps what the caller
\* passed, seqs is the list as the loop has left it.
InitMerge ==
  \E n \in 0..MaxSeqs :
    \E in \in [1..n -> NameSeqs(MaxSeqLen)] :
      /\ heap = MkHeap(<<>>)
      /\ roots = {}
      /\ undo = EmptyUndo
      /\ pc = "idle"
      /\ op = NoOp
      /\ pre = heap
      /\ created = <<>>
      /\ unboundCount = UnboundCountInit
      /\ calls = 0
      /\ cache = NoCache
      /\ ctx = NoCtx
      /\ suite = <<>>
      /\ run = [pc |-> "merge", input |-> in, seqs |-> in, result |-> <<>>, i |-> 0]

\* One iteration of for (size_t i = 0;; i++) in Cache::mergeC3: the result
\* is returned when every sequence is empty, the empty list when no head is
\* free, and else the candidate is appended and taken off the heads.
MergeC3 ==
  /\ run.pc = "merge"
  /\ run' = IF ~Found(run.seqs) THEN [run EXCEPT !.pc = "returned"]
            ELSE IF Cand(run.seqs) = "" THEN [run EXCEPT !.pc = "returned", !.result = <<>>]
            ELSE [run EXCEPT !.result = Append(@, Cand(run.seqs)),
                             !.seqs = EraseHeads(@, Cand(run.seqs)),
                             !.i = @ + 1]
  /\ UNCHANGED <<graph, cache, ctx, suite>>

NextMerge == MergeC3

\* The loop is sequential code: an iteration that can run does.
SpecMerge == InitMerge /\ [][NextMerge]_vars /\ WF_vars(NextMerge)

\* ------------------------------------------------------------ properties
\* The variables of the graph h.
Links(h) == {x \in Addr : h[x].k = "link"}

\* The nodes of the types a and b in the graph h.
NodesOf(h, a, b) == ReachFrom(h, {a, b}, {}, "all")

\* A node without the value its static expression was found to have: the
\* value is a function of the node, so finding it changes no type.
Unevaluated(n) ==
  IF n.k = "static" /\ n.expr # "lit" THEN [n EXCEPT !.evaluated = FALSE, !.value = 0]
  ELSE n

\* C1: after a successful unify(a, b, undo) followed by undo.undo(), every
\* node of a and b is what it was before the attempt, and unifying a and b
\* again with a second log succeeds with the same score.
C1_UndoRestoresAndRepeats ==
  /\ pc = "undone" /\ op.ret >= 0 =>
       \A x \in NodesOf(pre, op.a, op.b) : Unevaluated(heap[x]) = Unevaluated(pre[x])
  /\ pc = "retried" /\ op.ret >= 0 => op.ret2 = op.ret

C3_NoVariableOnACycle ==
  \A x \in Links(heap) : heap[x].kind = "Link" => ~OnOccursCycle(heap, x)

\* Type::unify (or TypecheckVisitor::unify) has just been called on op.a and
\* op.b in the graph pre.
JustCalled ==
  /\ pc \in {"probed", "done", "error", "raised", "cyclic"}
  /\ op.name \in {"probe", "null", "typecheck"}

\* The call kept what it bound: it had an undo log and did not roll it back.
KeptLog == op.name = "probe" \/ (op.name = "typecheck" /\ ~op.undoOnSuccess)

IsUnbound(h, x) == h[x].k = "link" /\ h[x].kind = "Unbound"

\* The Unbound variable t occurs inside the type c: c is not t itself and t is
\* reached from c along the pointers of the given kind.
Inside(h, t, c, mode) ==
  /\ IsUnbound(h, t)
  /\ Follow(h, c) # t
  /\ t \in ReachFrom(h, Edges(h[Follow(h, c)], mode), {}, mode)

\* c is an open union, which absorbs what it is unified with.
Absorbs(h, c) == h[Follow(h, c)].k = "union" /\ ~h[Follow(h, c)].sealed

\* c is a static expression that is just the name of a generic.
IsId(h, c) == h[Follow(h, c)].k = "static" /\ h[Follow(h, c)].expr = "id"

\* The call returned -1 and left t Unbound.
Refused(t) ==
  /\ pc \in {"probed", "done", "error"}
  /\ op.ret = -1
  /\ heap[t].kind = "Unbound"
  /\ heap[t].type = 0

C4_AnyContainerRefused ==
  JustCalled =>
    \A t \in {op.a, op.b} : \A c \in {op.a, op.b} \ {t} :
      Inside(pre, t, c, "walk") => Refused(t)

\* C4 (amended): unify of an Unbound variable t with a type that reaches it
\* through Link targets, class generics, record args or static generics, and
\* that is neither an open union nor a static expression naming a generic,
\* returns -1 in either order and leaves t Unbound.
C4_OccursRefused ==
  JustCalled =>
    \A t \in {op.a, op.b} : \A c \in {op.a, op.b} \ {t} :
      Inside(pre, t, c, "occurs") /\ ~Absorbs(pre, c) /\ ~IsId(pre, c) => Refused(t)

\* unify(C, t) was refused for a class C that holds t two levels down.
C4_Witness ==
  /\ pc = "probed"
  /\ op.ret = -1
  /\ pre[op.a].k = "class"
  /\ Inside(pre, op.b, op.a, "occurs")
  /\ op.b \notin SeqRange(pre[op.a].generics)

\* The two arguments are distinct Unbound variables.
TwoUnbounds == IsUnbound(pre, op.a) /\ IsUnbound(pre, op.b) /\ pre[op.a].id # pre[op.b].id
Higher == IF pre[op.a].id > pre[op.b].id THEN op.a ELSE op.b
Lower == IF pre[op.a].id > pre[op.b].id THEN op.b ELSE op.a

HigherLinkedToLower ==
  /\ heap[Higher].kind = "Link"
  /\ heap[Higher].type = Lower
  /\ heap[Lower].kind = "Unbound"
  /\ heap[Lower].type = 0

\* C5 (as claimed): whenever unify succeeds on two distinct Unbound
\* variables, the one with the higher id becomes a Link to the one with the
\* lower id, which stays Unbound.
C5_HigherBindsToLowerAlways ==
  pc \in {"probed", "done"} /\ (KeptLog \/ op.name = "null") /\ op.ret >= 0 /\ TwoUnbounds
    => HigherLinkedToLower

\* C5 (amended): whenever unify with an undo log succeeds on two distinct
\* Unbound variables of which the higher-id one has no trait, the higher-id
\* one becomes a Link to the lower-id one, which stays Unbound.
C5_HigherBindsToLower ==
  pc \in {"probed", "done"} /\ KeptLog /\ op.ret >= 0 /\ TwoUnbounds /\ pre[Higher].trait = 0
    => HigherLinkedToLower

\* unify(lower, higher) succeeded: the receiver is the one that stays.
C5_Witness ==
  /\ pc = "probed"
  /\ op.ret >= 0
  /\ TwoUnbounds
  /\ Lower = op.a
  /\ pre[Higher].trait = 0
  /\ heap[op.b].kind = "Link"

\* C6: a variable has a target exactly when its kind is Link.
C6_TargetIffLink ==
  \A x \in Links(heap) : (heap[x].type # 0) <=> (heap[x].kind = "Link")

\* An undo has unbound a variable while another variable stays a Link.
C6_Witness ==
  /\ pc = "undone"
  /\ Len(undo.linked) > 0
  /\ heap[undo.linked[1]].kind = "Unbound"
  /\ \E x \in Links(heap) : heap[x].kind = "Link"

\* The graph unify(op.a, op.b, undo) makes of pre with an undo log.
WithLog == Unify(Run(pre, EmptyUndo, <<>>), op.a, op.b, TRUE).h

\* C7 (as claimed): a successful unify with a null undo log binds the
\* variables an undo log would have it bind.
C7_NullBindsAsWithLog ==
  pc = "done" /\ op.name = "null" /\ op.ret >= 0 =>
    \A x \in Links(pre) : heap[x].kind = WithLog[x].kind /\ heap[x].type = WithLog[x].type

\* C7 (amended): unify with a null undo log binds nothing: every variable
\* has the kind, target, level and trait it had before the call.
C7_NullLogBindsNothing ==
  pc \in {"done", "raised", "cyclic"} /\ op.name = "null" =>
    \A x \in Links(pre) : heap[x] = pre[x]

\* unify(t, T, null) returned 0 for an Unbound t and a class or record T.
C7_Witness ==
  /\ pc = "done"
  /\ op.name = "null"
  /\ op.ret = 0
  /\ IsUnbound(pre, op.a)
  /\ pre[op.b].k \in {"class", "record"}

\* C8: when unify(a, b) returns -1, unify(b, a) from the same graph returns
\* -1 too.
C8_FailureSymmetric ==
  pc = "probed" /\ op.ret = -1 =>
    Unify(Run(pre, EmptyUndo, <<>>), op.b, op.a, TRUE).ret = -1

\* Evaluating the static expression x, or realizing the function x, raises.
Raises(h, x) ==
  \/ h[x].k = "static" /\ ~h[x].evaluated /\ CanRealize(h, x) /\ EvaluateRaises(h, x)
  \/ h[x].k = "func" /\ BodyRaises(h[x].ast) /\ CanRealize(h, x)

C10_IdsUniqueIncreasing ==
  \A i, j \in 1..Len(created) : i < j => created[i] < created[j]

\* ------------------------------------- properties of generalize, instantiate
IsGeneric(h, x) == h[x].k = "link" /\ h[x].kind = "Generic"

RECURSIVE Corr(_, _, _, _), CorrEach(_, _, _, _, _)
\* The pairs <<p, q>> of a node p of the type at x in the graph hp and the
\* node q at the same place of the type at y in the graph h, where y is what
\* generalize or instantiate made of x: a Link of x is passed through, and a
\* variable returned as itself is not entered.
Corr(hp, h, x, y) ==
  IF x = 0 \/ y = 0 THEN {}
  ELSE IF hp[x].k = "link" /\ hp[x].kind = "Link" THEN Corr(hp, h, hp[x].type, y)
  ELSE IF x = y THEN {<<x, y>>}
  ELSE {<<x, y>>} \cup CorrEach(hp, h, hp[x].generics, h[y].generics, 1)
         \cup CorrEach(hp, h, hp[x].args, h[y].args, 1)
         \cup CorrEach(hp, h, hp[x].funcGenerics, h[y].funcGenerics, 1)
         \cup CorrEach(hp, h, <<hp[x].funcParent, hp[x].type, hp[x].trait>>,
                        <<h[y].funcParent, h[y].type, h[y].trait>>, 1)

CorrEach(hp, h, xs, ys, i) ==
  IF i > Len(xs) \/ i > Len(ys) THEN {}
  ELSE Corr(hp, h, xs[i], ys[i]) \cup CorrEach(hp, h, xs, ys, i + 1)

\* The call that has just returned is instantiate / generalize.
Instantiated == pc = "done" /\ op.name = "instantiate"
Generalized == pc = "done" /\ op.name = "generalize"

\* C11: within one instantiate call, every occurrence of Generic parameters
\* with one id is replaced by one and the same Unbound variable, made by this
\* call; being one node, a binding of it is seen at every occurrence.
C11_SameGenericSameVariable ==
  Instantiated =>
    \A c \in Corr(pre, heap, op.a, op.ret), d \in Corr(pre, heap, op.a, op.ret) :
      (IsGeneric(pre, c[1]) /\ IsGeneric(pre, d[1]) /\ pre[c[1]].id = pre[d[1]].id)
        => /\ c[2] = d[2]
           /\ IsUnbound(heap, c[2])
           /\ pre[c[2]].k = "none"

\* C11 happens: foo[T](a: T, b: T) -> T has been instantiated, and the types of
\* a and b of the instance are one fresh variable.
C11_Witness ==
  /\ Instantiated
  /\ pre[op.a].k = "func"
  /\ \E t \in {GetRecord(heap, heap[op.ret].generics[1])} :
       /\ Len(heap[t].args) = 2
       /\ heap[t].args[1] = heap[t].args[2]
       /\ IsUnbound(heap, heap[t].args[1])
       /\ pre[heap[t].args[1]].k = "none"
       /\ IsGeneric(pre, pre[GetRecord(pre, pre[op.a].generics[1])].args[1])

\* C12: no two variables of the graph have one id. Every variable is made with
\* the next id of its counter, so two variables with one id are fresh variables
\* of two instantiations.
C12_InstancesShareNoId ==
  \A x \in Links(heap), y \in Links(heap) :
    (x # y /\ IsUnbound(heap, x) /\ IsUnbound(heap, y)) => heap[x].id # heap[y].id

\* C13: generalize(L) changes no node of the graph; in its result an Unbound
\* variable at level L or above is replaced by a new Generic with its id, an
\* Unbound variable below L is the same node, and nothing else has become a
\* Generic.
C13_GeneralizeByLevel ==
  Generalized =>
    /\ \A x \in Addr : pre[x].k # "none" => heap[x] = pre[x]
    /\ \A c \in Corr(pre, heap, op.a, op.ret) :
         /\ (IsUnbound(pre, c[1]) /\ pre[c[1]].level >= op.b)
              => (IsGeneric(heap, c[2]) /\ heap[c[2]].id = pre[c[1]].id
                    /\ pre[c[2]].k = "none")
         /\ (IsUnbound(pre, c[1]) /\ pre[c[1]].level < op.b) => c[2] = c[1]
         /\ IsGeneric(heap, c[2])
              => (c[2] = c[1] \/ (IsUnbound(pre, c[1]) /\ pre[c[1]].level >= op.b))

\* C13 happens: a type with a variable below L and a variable at L or above
\* has been generalized.
C13_Witness ==
  /\ Generalized
  /\ \E c \in Corr(pre, heap, op.a, op.ret), d \in Corr(pre, heap, op.a, op.ret) :
       /\ IsUnbound(pre, c[1]) /\ pre[c[1]].level >= op.b /\ IsGeneric(heap, c[2])
       /\ IsUnbound(pre, d[1]) /\ pre[d[1]].level < op.b /\ d[2] = d[1]

\* The type x is closed at level L: it has variables, all of them Unbound at
\* level L or above.
Closed(h, x, L) ==
  /\ \E v \in ReachFrom(h, {x}, {}, "walk") : IsUnbound(h, v)
  /\ \A v \in ReachFrom(h, {x}, {}, "walk") :
       h[v].k = "link" => (h[v].kind # "Generic" /\ (IsUnbound(h, v) => h[v].level >= L))

\* instantiate(generalize(x, L), L) with the program's counter.
RoundTrip(x, L) ==
  With(Generalize(Run(heap, EmptyUndo, created), x, L), LAMBDA g :
    Instantiate([g EXCEPT !.cnt = unboundCount, !.cache = <<>>], g.res, L, TRUE))

\* C14: for every type G closed at level L, instantiate(generalize(G, L), L)
\* has G's shape, and G's variables and the fresh variables of the result
\* correspond one to one.
C14_RoundTripOneToOne ==
  \A x \in Types, L \in Levels :
    Closed(heap, x, L) =>
      \A r \in {RoundTrip(x, L)} :
        ~r.oom =>
          \A c \in Corr(heap, r.h, x, r.res), d \in Corr(heap, r.h, x, r.res) :
            /\ heap[c[1]].k = r.h[c[2]].k
            /\ heap[c[1]].name = r.h[c[2]].name
            /\ IsUnbound(heap, c[1])
                 => (IsUnbound(r.h, c[2]) /\ heap[c[2]].k = "none")
            /\ (IsUnbound(heap, c[1]) /\ IsUnbound(heap, d[1]))
                 => ((c[1] = d[1]) <=> (c[2] = d[2]))

\* --------------------------------------------------- properties of realize
\* No two records of the table have one key.
OnePerKey(tab) == Cardinality({tab[i].key : i \in 1..Len(tab)}) = Len(tab)

\* The realizations in progress as records of the table, and their names.
InProgress == {[key |-> RealizedNameOf(ctx.bases[i].type), type |-> ctx.bases[i].type] :
                 i \in 1..Len(ctx.bases)}
InProgressNames == {RealizedNameOf(ctx.bases[i].type) : i \in 1..Len(ctx.bases)}

C16_InProgressIsCached ==
  /\ {ctx.bases[i].type.obj : i \in 1..Len(ctx.bases)}
       \subseteq {cache.functions[j].type.obj : j \in 1..Len(cache.functions)}
  /\ \A j \in 1..Len(cache.functions) :
       cache.functions[j].key = RealizedNameOf(cache.functions[j].type)
  /\ Cardinality(InProgressNames) = Len(ctx.bases)
  /\ Cardinality(SeqRange(run.inferred)) = Len(run.inferred)
  /\ (run.pc = "body" /\ run.ret # Null /\ RealizedNameOf(run.ret) \in InProgressNames)
       => [key |-> RealizedNameOf(run.ret), type |-> run.ret] \in InProgress

\* C16 happens: the body of a realization in progress asked for its own
\* realized name with another type object and got the type in progress back.
C16_Witness ==
  /\ run.pc = "body"
  /\ \E i \in 1..Len(ctx.bases) :
       /\ run.ret = ctx.bases[i].type
       /\ Len(ctx.bases[Len(ctx.bases)].suite) = 0
       /\ run.objs > run.ret.obj

\* C17: no more than 500 function realizations are nested at any time.
C17_DepthNeverExceedsCap ==
  /\ Len(ctx.bases) <= MaxRealizationDepth
  /\ ctx.realizationDepth <= MaxRealizationDepth

\* C22: the exception that reaches the top-level caller carries one "while
\* realizing" frame for each realization that was active when it was raised,
\* innermost first; on its way it carries the frames of the realizations it
\* has left.
C22_OneFramePerActiveRealization ==
  /\ run.pc = "error" => run.messages = run.active
  /\ run.pc = "raised" =>
       /\ Len(run.messages) <= Len(run.active)
       /\ run.messages = SubSeq(run.active, 1, Len(run.messages))

\* C22 happens: the error was raised in a realizeType nested in two
\* realizeFunc calls and has reached the top-level caller with three frames.
C22_Witness ==
  /\ run.pc = "error"
  /\ run.active = <<<<"Holder", 0>>, <<"mk", 0>>, <<"wrap", 0>>>>
  /\ run.messages = run.active

\* C23: whatever calls of a generic function were type-checked and whatever
\* realizations of it were made, its template in the cache is what it was.
C23_TemplateStaysPristine == suite = run.pristine

\* C24: when Cache::realizeFunction has returned null because a unification
\* failed, every type of the caller is as it was before the call.
C24_FailureLeavesNoBinding ==
  run.ret = "unify" => \A x \in roots : heap[x] = pre[x]

\* C25: binding a strict subset of the parameters in a partial call and
\* completing it with the rest resolves to the same realized function and
\* return type as the one call with all arguments.
C25_PartialThenCompleteIsDirect ==
  (run.direct.done /\ run.completed.done) => run.completed = run.direct

\* The argument of the top-level realize call cannot be realized yet.
NotYetRealizable(r) ==
  \/ ~r.canRealize
  \/ r.arg.k = "class" /\ "" \in SeqRange(Fields(r.arg.name))

\* C21: a top-level realize call on a type that cannot be realized yet (its
\* canRealize() is false, or it is a class with a field whose type is not
\* populated) returns null, raises no error and leaves both realization tables
\* as they were.
C21_NotYetRealizableReturnsNull ==
  [][(run'.calls = run.calls + 1 /\ NotYetRealizable(run'))
       => (run'.pc = "returned" /\ run'.ret = Null /\ cache' = cache)]_vars

\* C21 happens: with records in the tables, realize was asked for a class
\* whose field has no type yet and returned null.
C21_Witness ==
  /\ run.pc = "returned"
  /\ run.arg.k = "class"
  /\ "" \in SeqRange(Fields(run.arg.name))
  /\ run.ret = Null
  /\ Len(cache.classes) > 0
  /\ Len(cache.functions) > 0

\* --------------------------------------------- properties of static evaluation
RECURSIVE Subtree(_, _)
\* The nodes of the tree under x.
Subtree(ast, x) ==
  IF x = 0 THEN {}
  ELSE {x} \cup UNION {Subtree(ast, ast[x].kids[k]) : k \in 1..Len(ast[x].kids)}

\* What the last pass was given and what it put in its place: the statement
\* the caller holds, and every child of a node.
Replaced ==
  {<<run.root, run.result>>}
    \cup UNION {{<<run.before[j].kids[k], suite[j].kids[k]>> :
                   k \in 1..Len(run.before[j].kids)} : j \in 1..Len(run.before)}

\* The pass visited the node i.
VisitedNow(i) == suite[i].visits > run.before[i].visits

\* The condition of the if-expression or if-statement i is a fully evaluated
\* static value, and isTrue says which.
CondEvaluated(i, isTrue) ==
  LET c == suite[suite[i].kids[1]] IN
    IF suite[i].k = "ifexpr"
    THEN c.staticValue.type # "none" /\ c.staticValue.evaluated
         /\ isTrue = (c.staticValue.value # 0)
    ELSE /\ suite[i].k = "ifstmt"
         /\ c.type # 0
         /\ IsStaticType(heap, c.type) # 0
         /\ CanRealize(heap, c.type)
         /\ isTrue = (heap[Follow(heap, c.type)].value # 0)

\* C26: an if-expression or if-statement visited with a fully evaluated static
\* condition is replaced by its taken branch (an empty suite when an
\* if-statement has none); no node of the other branch was ever visited or is
\* in the tree the caller holds.
C26_StaticIfKeepsTakenBranch ==
  (run.last = "pass" /\ run.pc = "loop") =>
    \A ir \in Replaced : \A isTrue \in BOOLEAN :
      LET i == ir[1]
          taken == IF isTrue THEN suite[i].kids[2] ELSE suite[i].kids[3]
          other == IF isTrue THEN suite[i].kids[3] ELSE suite[i].kids[2]
      IN (i # 0 /\ i <= Len(run.before) /\ VisitedNow(i) /\ CondEvaluated(i, isTrue)) =>
           /\ ir[2] # i
           /\ IF taken # 0 THEN ir[2] = taken \/ ir[2] > Len(run.before)
              ELSE suite[ir[2]].k = "suite" /\ suite[ir[2]].kids = <<>>
           /\ \A x \in Subtree(suite, other) : suite[x].visits = 0
           /\ Subtree(suite, other) \cap Subtree(suite, run.result) = {}

\* C26 happens: an if-statement with a true static condition and an else suite
\* was replaced by its if suite, and one with a false condition and no else
\* suite by an empty suite.
C26_Witness ==
  /\ run.passes = 1
  /\ run.pc = "loop"
  /\ run.before[run.root].k = "ifstmt"
  /\ CondEvaluated(run.root, FALSE)
  /\ suite[run.root].kids[2] # 0
  /\ suite[run.root].kids[3] = 0
  /\ run.result > Len(run.before)
  /\ suite[run.result].k = "suite"
  /\ suite[run.result].done

\* The values a static operator may give: // and % leave a remainder smaller
\* than the divisor, the others are the arithmetic and the truth values.
ValueOf(o, l, r, v) ==
  CASE o = "+" -> v = l + r
    [] o = "-" -> v = l - r
    [] o = "*" -> v = l * r
    [] o = "//" -> Abs(l - r * v) < Abs(r)
    [] o = "%" -> Abs(v) < Abs(r) /\ \E q \in -Abs(l)..Abs(l) : l = q * r + v
    [] o = "<" -> (v = 1) = (l < r)
    [] o = "<=" -> (v = 1) = (l <= r)
    [] o = ">" -> (v = 1) = (l > r)
    [] o = ">=" -> (v = 1) = (l >= r)
    [] o = "==" -> (v = 1) = (l = r)
    [] o = "!=" -> (v = 1) = (l # r)
    [] o = "&&" -> (v = 1) = (l # 0 /\ r # 0)
    [] o = "||" -> (v = 1) = (l # 0 \/ r # 0)

\* The binary expression i has a supported static operator and two evaluated
\* static integers as operands (the divisor of // and % is not zero: that
\* raises "static division by zero").
StaticOperands(i) ==
  LET l == suite[suite[i].kids[1]].staticValue
      r == suite[suite[i].kids[2]].staticValue
  IN /\ suite[i].k = "bin"
     /\ suite[i].op \in StaticOps
     /\ l.type = "int" /\ l.evaluated
     /\ r.type = "int" /\ r.evaluated
     /\ suite[i].op \in {"//", "%"} => r.value # 0

Exact(m, arg) ==
  LET t == GetArgTypes(heap, m)[1] IN
    heap[t].k = "record" /\ heap[t].name = heap[arg].name

\* C28: of the methods that accept the arguments findBestMethod returns the
\* one whose signature is closest to them, the first of those that are
\* equally close, and nullptr when none accepts them: for an int argument
\* foo(int) is returned when it is among them, before foo(T).
C28_ClosestMethodIsReturned ==
  run.pc = "returned" =>
    /\ (run.ret = 0) = (run.matching = <<>>)
    /\ run.ret # 0 =>
         /\ run.ret \in SeqRange(run.matching)
         /\ \A i \in 1..Len(run.matching) :
              Exact(run.matching[i], run.args[1]) => Exact(run.ret, run.args[1])

\* ------------------------------------------- properties of generic variables
\* Whether x, followed through its links in h, is a Generic variable.
FollowsToGeneric(h, x) == h[Follow(h, x)].k = "link" /\ h[Follow(h, x)].kind = "Generic"

\* A unify call (with an undo log or with none) has just returned and one of
\* its two arguments was a Generic variable.
GenericCall ==
  /\ pc \in {"probed", "done"}
  /\ op.name \in {"probe", "null"}
  /\ (FollowsToGeneric(pre, op.a) \/ FollowsToGeneric(pre, op.b))

\* C29: unifying any type with a Generic variable, in either argument order,
\* returns -1 and changes neither side.
C29_GenericNeverUnifies == GenericCall => (op.ret = -1 /\ heap = pre)

\* The cases of C29 outside an open union on the left: they do return -1.
C29_GenericRefusedByOthers ==
  (GenericCall /\ ~(GetUnion(pre, op.a) # 0 /\ ~pre[GetUnion(pre, op.a)].sealed))
    => (op.ret = -1 /\ heap = pre)

\* ------------------------------------------------ properties of sealed unions
\* The sealed union x stands for in h, 0 if it stands for none.
SealedUnion(h, x) ==
  IF GetUnion(h, x) # 0 /\ h[GetUnion(h, x)].sealed THEN GetUnion(h, x) ELSE 0

\* The realized names of the alternatives of the union un: what is left of
\* them after de-duplication by realized name.
AltNames(h, un) == {RealizedName(h, h[un].generics[i]) : i \in 1..Len(h[un].generics)}

\* The first alternative of un that has the realized name key.
AltOf(h, un, key) ==
  h[un].generics[CHOOSE i \in 1..Len(h[un].generics) :
                   /\ RealizedName(h, h[un].generics[i]) = key
                   /\ \A j \in 1..(i - 1) : RealizedName(h, h[un].generics[j]) # key]

RECURSIVE Ascending(_)
\* The names in ascending order.
Ascending(names) ==
  IF names = {} THEN <<>>
  ELSE LET n == CHOOSE a \in names : \A b \in names : ~LexLess(b, a)
       IN <<n>> \o Ascending(names \ {n})

\* After de-duplication both unions have the same number of alternatives and
\* the alternatives, taken in the order of their realized names, unify pairwise.
AlternativesAgree(h, u1, u2) ==
  /\ Cardinality(AltNames(h, u1)) = Cardinality(AltNames(h, u2))
  /\ \A i \in 1..Cardinality(AltNames(h, u1)) :
       Unify(Run(h, EmptyUndo, <<>>), AltOf(h, u1, Ascending(AltNames(h, u1))[i]),
             AltOf(h, u2, Ascending(AltNames(h, u2))[i]), FALSE).ret >= 0

\* A unify call (with an undo log or with none) of two sealed unions has just
\* returned.
SealedCall ==
  /\ pc \in {"probed", "done"}
  /\ op.name \in {"probe", "null"}
  /\ SealedUnion(pre, op.a) # 0
  /\ SealedUnion(pre, op.b) # 0

BothRealizable ==
  CanRealize(pre, SealedUnion(pre, op.a)) /\ CanRealize(pre, SealedUnion(pre, op.b))

\* C30 as stated: unifying two sealed unions succeeds only if, after
\* de-duplicating each side's alternatives by realized name, both sides have
\* the same number of alternatives and the alternatives unify pairwise; in
\* every other case it returns -1.
C30_SealedUnionsAgreeOrFail ==
  SealedCall =>
    \/ AlternativesAgree(pre, SealedUnion(pre, op.a), SealedUnion(pre, op.b))
    \/ op.ret = -1

\* C30, amended: two sealed unions that can both be realized unify only if
\* their de-duplicated alternatives are as many and unify pairwise, and the
\* call returns -1 otherwise; when either cannot be realized the call returns
\* 0 and binds nothing.
C30_RealizableSealedUnionsAgreeOrFail ==
  SealedCall =>
    IF BothRealizable
    THEN \/ AlternativesAgree(pre, SealedUnion(pre, op.a), SealedUnion(pre, op.b))
         \/ op.ret = -1
    ELSE op.ret = 0 /\ heap = pre

\* Union[int,int,str] has been unified with Union[str,int]: two alternatives a
\* side after de-duplication, paired by name, and the call succeeded.
C30_Witness ==
  /\ SealedCall /\ BothRealizable
  /\ Len(pre[SealedUnion(pre, op.a)].generics) = 3
  /\ Cardinality(AltNames(pre, SealedUnion(pre, op.a))) = 2
  /\ pre[SealedUnion(pre, op.b)].generics = <<3, 2>>
  /\ op.ret >= 0

\* -------------------------------------------------- properties of open unions
\* The open union x stands for in h, 0 if it stands for none.
OpenUnion(h, x) ==
  IF GetUnion(h, x) # 0 /\ ~h[GetUnion(h, x)].sealed THEN GetUnion(h, x) ELSE 0

\* Some alternative of the union un unifies with t.
AlternativeUnifies(h, un, t) ==
  \E i \in 1..Len(h[un].generics) :
    Unify(Run(h, EmptyUndo, <<>>), h[un].generics[i], t, FALSE).ret >= 0

\* A unify call (with an undo log or with none) of an open union with a type
\* that is no union has just returned, or has closed a cycle by what it or
\* the probe of one of its alternatives appended (no descent comes back from
\* there).
OpenCall ==
  /\ pc \in {"probed", "done", "cyclic"}
  /\ op.name \in {"probe", "null"}
  /\ OpenUnion(pre, op.a) # 0
  /\ GetUnion(pre, op.b) = 0

\* C31: unifying an open union with a non-union type T always succeeds; if an
\* existing alternative unifies with T the list of alternatives is left
\* unchanged, otherwise T is appended as the last alternative and the earlier
\* alternatives keep their order.
C31_OpenUnionAbsorbs ==
  OpenCall =>
    /\ pc # "cyclic" => op.ret >= 0
    /\ heap[OpenUnion(pre, op.a)].generics =
         IF AlternativeUnifies(pre, OpenUnion(pre, op.a), op.b)
         THEN pre[OpenUnion(pre, op.a)].generics
         ELSE Append(pre[OpenUnion(pre, op.a)].generics, op.b)

\* The part of C31 about the calls that return: no cycle was closed on the
\* way.
C31_AbsorbsUnlessCycleClosed ==
  (OpenCall /\ pc # "cyclic") =>
    /\ op.ret >= 0
    /\ heap[OpenUnion(pre, op.a)].generics =
         IF AlternativeUnifies(pre, OpenUnion(pre, op.a), op.b)
         THEN pre[OpenUnion(pre, op.a)].generics
         ELSE Append(pre[OpenUnion(pre, op.a)].generics, op.b)

\* An open union that had an alternative has been given a second one.
C31_Witness ==
  /\ OpenCall /\ pc = "probed" /\ op.ret >= 0
  /\ Len(pre[OpenUnion(pre, op.a)].generics) = 1
  /\ Len(heap[OpenUnion(pre, op.a)].generics) = 2

\* An open union was left as it was because an alternative unified with the
\* type.
C31_WitnessUnchanged ==
  /\ OpenCall /\ pc = "probed" /\ op.ret >= 0
  /\ AlternativeUnifies(pre, OpenUnion(pre, op.a), op.b)
  /\ heap[OpenUnion(pre, op.a)].generics = pre[OpenUnion(pre, op.a)].generics

\* ---------------------------------------------------- properties of dispatch
\* The overloads of fn that are dispatch wrappers, and those that are not.
DispatchEntries(fn) ==
  {i \in 1..Len(cache.overloads[fn]) : EndsWithDispatch(cache.overloads[fn][i])}
PlainEntries(fn) ==
  {i \in 1..Len(cache.overloads[fn]) : ~EndsWithDispatch(cache.overloads[fn][i])}

\* The types the references to fn received.
Received(fn) == {run.refs[i][2] : i \in {j \in 1..Len(run.refs) : run.refs[j][1] = fn}}

\* C32: for an overload set with more than one overload the dispatch wrapper is
\* generated at most once: after any number of references the list of
\* overloads has exactly one :dispatch entry and every reference received that
\* same function type.
C32_DispatchGeneratedOnce ==
  \A fn \in Fns :
    (Cardinality(PlainEntries(fn)) > 1 /\ Received(fn) # {}) =>
      /\ Cardinality(DispatchEntries(fn)) = 1
      /\ Cardinality({i \in 1..Len(run.generated) : run.generated[i][1] = fn}) = 1
      /\ Received(fn) = {cache.functions[DispatchName(fn)].type}
      /\ heap[cache.functions[DispatchName(fn)].type].ast = DispatchName(fn)

\* Three references to foo, which has more than one overload, through both
\* entry points.
C32_Witness ==
  /\ Cardinality(PlainEntries(<<"foo">>)) > 1
  /\ Len(run.refs) = 3
  /\ \A i \in 1..3 : run.refs[i][1] = <<"foo">>
  /\ Cardinality(DispatchEntries(<<"foo">>)) = 1

\* ------------------------------------------------------- properties of match
RECURSIVE Matches(_, _)
\* Whether the integer v matches the pattern.
Matches(pattern, v) ==
  IF pattern.k = "int" THEN v = pattern.value
  ELSE IF pattern.k = "range" THEN pattern.start <= v /\ v <= pattern.stop
  ELSE IF pattern.k = "binary" THEN Matches(pattern.lexpr, v) \/ Matches(pattern.rexpr, v)
  ELSE IF pattern.k = "id" THEN TRUE
  ELSE Matches(pattern.expr, v)

\* The cases whose pattern matches the subject and whose guard, if there is
\* one, is true.
Matching ==
  {i \in 1..Len(run.cases) :
     Matches(Patterns[run.cases[i].pattern], run.what) /\ run.cases[i].guard # "false"}

\* The suite the match statement is to execute: that of the first matching
\* case, none when no case matches.
FirstMatching ==
  IF Matching = {} THEN <<>> ELSE <<CHOOSE i \in Matching : \A j \in Matching : i <= j>>

\* C33: the loop a match statement is lowered to runs its body at most once
\* and executes the suite of at most one case, the first in source order
\* whose pattern and guard match; when no case matches no suite is executed and
\* the loop still exits.
C33_MatchLoopRunsOnce ==
  /\ run.iterations <= 1
  /\ run.iterations = 1 => (run.pc = "exited" /\ run.ran = FirstMatching)

\* The same for the match statements no suite of which ends in continue.
C33_RunsOnceWithoutContinue ==
  (\A i \in 1..Len(run.cases) : run.cases[i].ending # "continue")
    => (/\ run.iterations <= 1
        /\ run.iterations = 1 => (run.pc = "exited" /\ run.ran = FirstMatching))

\* The body of the loop never enters two suites in one round, and the suite
\* it enters is that of the first matching case.
C33_OneSuiteARound ==
  run.iterations = 1 => run.ran = FirstMatching

\* ------------------------------------------- properties of default arguments
\* C34: if type-checking a default expression requires, while that same
\* expression is still being type-checked, filling it in again, the
\* 'recursive default arguments' error is raised instead of the recursion going
\* on: no default expression is entered twice without being left.
C34_RecursiveDefaultRaises ==
  /\ run.again => (run.pc = "raised" /\ run.error = "recursive default arguments")
  /\ \A i, j \in 1..Len(run.stack) : run.stack[i].es = run.stack[j].es => i = j

\* f's default calls g, whose default calls f: the second fill of f's default
\* was met while the first was being type-checked, and the error was raised.
C34_Witness ==
  /\ run.again
  /\ run.pc = "raised"
  /\ Len(run.stack) = 2

\* ------------------------------------------------------ properties of levels
\* The variables the unify call that has just returned has bound.
BoundNow ==
  {v \in DOMAIN heap : /\ pre[v].k = "link" /\ pre[v].kind = "Unbound"
                       /\ heap[v].k = "link" /\ heap[v].kind = "Link"}

\* The Unbound variables that occur in the type t: those t reaches through
\* the pointers of the given kind.
UnboundsIn(h, t, mode) ==
  {x \in ReachFrom(h, {t}, {}, mode) : h[x].k = "link" /\ h[x].kind = "Unbound"}

\* A unify call with an undo log has just returned with success.
Unified == pc = "probed" /\ op.name = "probe" /\ op.ret >= 0

\* C35: after a successful unify binds an Unbound variable v of level L to a
\* type T, every Unbound variable occurring in T has level at most L.
C35_BoundTypeIsNoDeeper ==
  Unified =>
    \A v \in BoundNow :
      \A x \in UnboundsIn(heap, heap[v].type, "walk") : heap[x].level <= heap[v].level

\* The same for the variables the occurs check passes: those T reaches
\* through Link targets, class generics, record args and static generics.
C35_OccursScopeIsNoDeeper ==
  Unified =>
    \A v \in BoundNow :
      \A x \in UnboundsIn(heap, heap[v].type, "occurs") : heap[x].level <= heap[v].level

\* --------------------------------------------------- properties of probing
\* The variables of h that are Unbound.
UnboundVariables(h) == {x \in DOMAIN h : h[x].k = "link" /\ h[x].kind = "Unbound"}

Frame(c) == <<c.realizationDepth, c.typecheckLevel, c.blocks, c.bases>>

\* C37: when the realizeFunc a top-level realize has called is over, with a
\* type or with an error that it has thrown on, the context's
\* realizationDepth, typecheckLevel, block stack and bases are what they were
\* when it was entered.
C37_ContextRestored ==
  run.pc \in {"returned", "error"} => Frame(ctx) = Frame(NoCtx)

\* The part of C37 about a normal return: the context is restored, and while
\* realizations are in progress each has raised the depth by one and the
\* level and the blocks by two.
C37_ContextRestoredOnReturn ==
  /\ run.pc = "returned" => Frame(ctx) = Frame(NoCtx)
  /\ run.pc \in {"call", "body"} =>
       /\ ctx.realizationDepth = Len(ctx.bases)
       /\ ctx.typecheckLevel = 2 * Len(ctx.bases)
       /\ ctx.blocks = 2 * Len(ctx.bases)

\* ------------------------------------- properties of the realization tables
\* No realizeFunc or realizeType call is in progress.
AtRest == run.pc \in {"idle", "returned", "error"}

\* The realized names of the realizations that failed: those that were active
\* when the error was raised.
Failed == IF run.pc = "error" THEN SeqRange(run.active) ELSE {}

\* C38: once no realization is in progress, every record of the realization
\* tables belongs to a realization that was completed: the record of a
\* function is one whose realization was queued for translation at its end,
\* and no table holds a record for the realized name of a function or class
\* whose realization failed with an error.
C38_RecordsAreOfCompletedRealizations ==
  AtRest =>
    /\ \A i \in 1..Len(cache.functions) :
         cache.functions[i].key \in cache.pendingRealizations
    /\ \A key \in Failed :
         Find(cache.functions, key) = 0 /\ Find(cache.classes, key) = 0

\* The part of C38 about realizations that return: while no error has been
\* raised, the records of the function table at rest are of completed
\* realizations.
C38_RecordsCompletedOnReturn ==
  run.pc \in {"idle", "returned"} =>
    \A i \in 1..Len(cache.functions) :
      cache.functions[i].key \in cache.pendingRealizations

\* --------------------------------------------------- properties of mergeC3
\* The distinct type names of the sequences.
NamesOf(seqs) == UNION {SeqRange(seqs[i]) : i \in 1..Len(seqs)}

\* res holds each name of seqs once and none else, and the elements of every
\* sequence come in res in the order they have in the sequence.
Linearizes(res, seqs) ==
  /\ SeqRange(res) = NamesOf(seqs)
  /\ \A a, b \in 1..Len(res) : res[a] = res[b] => a = b
  /\ \A i \in 1..Len(seqs) : \A j, k \in 1..Len(seqs[i]) :
       j < k => \E a, b \in 1..Len(res) :
                  a < b /\ res[a] = seqs[i][j] /\ res[b] = seqs[i][k]

\* The sequences admit such an order.
Admits(seqs) ==
  \E res \in [1..Cardinality(NamesOf(seqs)) -> NamesOf(seqs)] : Linearizes(res, seqs)

\* C39: mergeC3 returns for every list of sequences; a list it returns that
\* is not empty holds each distinct type name of the input once and keeps the
\* order of the elements of every input sequence; it returns the empty list
\* when the input admits no such order.
C39_MergeC3Linearizes ==
  /\ <>(run.pc = "returned")
  /\ [](run.pc = "returned" =>
          /\ run.result # <<>> => Linearizes(run.result, run.input)
          /\ ~Admits(run.input) => run.result = <<>>)

\* C39 happens: the merge of [A, B], [A, C] and [B, C] has returned A, B, C.
C39_Witness ==
  /\ run.pc = "returned"
  /\ run.input = <<<<"A", "B">>, <<"A", "C">>, <<"B", "C">>>>
  /\ run.result = <<"A", "B", "C">>

\* The merge of [A, B] and [B, A], which admit no order, has returned the
\* empty list after no iteration but the first.
C39_WitnessEmpty ==
  /\ run.pc = "returned"
  /\ run.input = <<<<"A", "B">>, <<"B", "A">>>>
  /\ run.result = <<>>

\* ------------------------------------------------- properties of inferTypes
\* The nodes that the last pass marked done.
NewlyDone == {i \in 1..Len(suite) : suite[i].done} \ run.before

\* No pending default was applied after the last pass: none was tried, or
\* unify failed for each.
NoDefaultApplied == \A j \in 1..Len(run.rets) : run.rets[j] < 0

\* An iteration is over and the loop has chosen how to go on.
IterationEnded == run.iteration >= 1 /\ run.pc \in {"loop", "returned", "error"}

\* C18 as stated: inferTypes returns within TYPECHECK_MAX_ITERATIONS
\* iterations.
C18_ReturnsWithinIterationCap ==
  run.pc = "returned" => run.iteration <= TYPECHECK_MAX_ITERATIONS

\* C18, amended: inferTypes returns only a statement that is done, and every
\* iteration that is followed by another one marked a node done or applied a
\* pending default, so that the iterations are bounded by the number of nodes
\* (plus the last iteration and the round of defaults), not by
\* TYPECHECK_MAX_ITERATIONS.
C18_IterationsBoundedByProgress ==
  /\ run.pc = "returned" => suite[run.result].done
  /\ (IterationEnded /\ run.pc = "loop") => (NewlyDone # {} \/ ~NoDefaultApplied)
  /\ run.iteration <= Len(suite) + 2

\* A statement without a type error was returned done after more iterations
\* than TYPECHECK_MAX_ITERATIONS.
C18_Witness ==
  /\ run.pc = "returned"
  /\ suite[run.result].done
  /\ run.iteration > TYPECHECK_MAX_ITERATIONS

\* C19: when an iteration ends with the statement not done, no node newly
\* marked done and no pending default applied, inferTypes raises "cannot
\* typecheck the program": it neither iterates again nor returns.
C19_NoProgressIsAnError ==
  (IterationEnded /\ ~suite[run.result].done /\ NewlyDone = {} /\ NoDefaultApplied)
    => run.pc = "error"

\* The error was raised after a pending default was tried and failed.
C19_Witness ==
  /\ run.pc = "error"
  /\ ~suite[run.result].done
  /\ NewlyDone = {}
  /\ run.rets # <<>>
  /\ NoDefaultApplied

\* C20: a node that is done stays done and no visitor runs on it again, in
\* the same pass or a later one.
C20_DoneIsNeverRevisited ==
  [][\A i \in 1..Len(suite) :
       suite[i].done => suite'[i].done /\ suite'[i].visits = suite[i].visits]_vars

====
